---------------------------- MODULE Spec2Model ----------------------------
(***************************************************************************)
(* Trust-establishment subsystem of driftwatch:                            *)
(*   - the server-side credential validator (driftwatch-api/src/auth.rs),  *)
(*   - the client-side browser login handshake with its loopback callback  *)
(*     listener, and the login command around it                           *)
(*     (driftwatch-cli/src/commands/auth.rs),                              *)
(*   - the configuration file across login, logout and Config::load        *)
(*     (driftwatch-cli/src/api.rs),                                        *)
(*   - the batch loaders of the API server (driftwatch-api/src/loaders.rs),*)
(*   - the API client and the run command with its flamegraph uploads      *)
(*     (driftwatch-cli/src/api.rs, driftwatch-cli/src/commands/run.rs),    *)
(*   - parse_pr_from_github_ref (driftwatch-cli/src/commands/run.rs).      *)
(***************************************************************************)
EXTENDS Integers, Sequences, FiniteSets, TLC

\* ------------------------------------------------------------------------
\* Bounds of the model
\* ------------------------------------------------------------------------

\* Number of distinct users known to the session / API-key stores.
MaxUsers == 2

None == [some |-> FALSE]
Some(v) == [some |-> TRUE, val |-> v]

\* ========================================================================
\* Part 1.  CredentialValidator: validate_token (driftwatch-api/src/auth.rs)
\* ========================================================================

VARIABLES
    sessions,   \* the session store: bearer string -> what the store holds for it
    apiKeys,    \* the API-key store: bearer string -> what the store holds for it
    vpc,        \* position of the running validate_token call
    vtoken,     \* its argument
    vcalls,     \* the store calls it has made so far, in order, with their results
    vresult,    \* its return value (once vpc = "done")
    vprev       \* the previous completed call: its store results and return value

authVars == <<sessions, apiKeys, vpc, vtoken, vcalls, vresult, vprev>>

\* The state of the login command and its handshake (Part 2).
VARIABLES
    pc,           \* position of the login command
    argToken,     \* --token (None: browser login)
    argApi,       \* --api-url
    argGrpc,      \* --grpc-url
    cred,         \* login's `token`: the credential in hand (None before there is one)
    outcome,      \* handshake state: Idle, AwaitingBrowser, Delivered, TimedOut, Failed
    err,          \* the error login returned ("none": Ok or still running)
    configFile,   \* the configuration file on disk
    configBefore, \* the file as it was when the invocation started
    browser,      \* open::that(&auth_url): "none", "opened", "failed"
    acceptLoop,   \* the spawned accept task: "none", "running", "aborted", "panicked"
    slot,         \* Arc<Mutex<Option<Sender>>>: "none", "sender", "taken", "dropped"
    chan,         \* the oneshot channel as rx sees it (at: seconds waited when sent)
    mutex,        \* holder of the slot's mutex (0: free)
    conns,        \* per connection: handler position, request, response, local `sender`
    taker,        \* the first connection to run take() on the slot (0: none yet)
    elapsed,      \* seconds since the timeout was armed, capped at TimeoutSecs
    effects       \* what browser_login has done before it waits, in program order

loginVars == <<pc, argToken, argApi, argGrpc, cred, outcome, err, configFile,
               configBefore, browser, acceptLoop, slot, chan, mutex, conns, taker,
               elapsed, effects>>

\* The other client commands that touch the configuration file (Part 3).
VARIABLES
    last          \* the last finished command: its name, inputs and result

cfgVars == <<last>>

\* The batch loaders of the API server (Part 4).
VARIABLES
    db,           \* per entity kind, the ids that have a row
    fetched,      \* per entity kind, the keys the request's resolver has fetched
    lastLoad      \* the last load call: kind, keys, bulk reads issued, result

loaderVars == <<db, fetched, lastLoad>>

\* The run command and the API client (Part 5).
VARIABLES
    rpc,          \* position of the command
    rin,          \* its inputs: --dry-run, --flamegraph files, the loaded credential
    rreqs,        \* the HTTP requests it has sent, in order
    rreport,      \* the report create_report returned (None before)
    rfile,        \* position in args.flamegraph of the file being handled
    rres          \* what the command returned

runVars == <<rpc, rin, rreqs, rreport, rfile, rres>>

VARIABLES
    githubRef,    \* the text parse_pr_from_github_ref is given (GITHUB_REF)
    prNumber      \* what it returned (not called yet before)

parseVars == <<githubRef, prNumber>>

vars == <<sessions, apiKeys, vpc, vtoken, vcalls, vresult, vprev,
          pc, argToken, argApi, argGrpc, cred, outcome, err, configFile,
          configBefore, browser, acceptLoop, slot, chan, mutex, conns, taker,
          elapsed, effects, last, db, fetched, lastLoad,
          rpc, rin, rreqs, rreport, rfile, rres, githubRef, prNumber>>

\* what an action of one part leaves alone in the other parts
outsideAuth == <<loginVars, cfgVars, loaderVars, runVars, parseVars>>
outsideLogin == <<authVars, cfgVars, loaderVars, runVars, parseVars>>

\* Bearer strings presented to the validator (opaque to validate_token).
Tokens == {"expired-session", "ak_123"}
Users == 1..MaxUsers

\* What a store may hold for a string: only the verdict "valid" makes its
\* validation succeed, every other verdict is the reason of the store's Err.
SessionEntries ==
    [verdict : {"valid", "expired"}, user : Users]
        \cup [verdict : {"unknown", "malformed"}, user : {0}]
ApiKeyEntries ==
    [verdict : {"valid", "revoked"}, user : Users]
        \cup [verdict : {"unknown", "malformed"}, user : {0}]

\* auth.validate_session(token): Ok((user, session)) or Err(reason).
ValidateSession(t) ==
    IF sessions[t].verdict = "valid"
    THEN [ok |-> TRUE, user |-> sessions[t].user,
          record |-> [kind |-> "session", token |-> t, user_id |-> sessions[t].user]]
    ELSE [ok |-> FALSE, reason |-> sessions[t].verdict]

\* auth.validate_api_key(token): Ok((api_key, user)) or Err(reason).
ValidateApiKey(t) ==
    IF apiKeys[t].verdict = "valid"
    THEN [ok |-> TRUE, user |-> apiKeys[t].user,
          record |-> [kind |-> "api_key", key |-> t, user_id |-> apiKeys[t].user]]
    ELSE [ok |-> FALSE, reason |-> apiKeys[t].verdict]

NoResult == [kind |-> "none"]

\* Ok(AuthUser { user, session: Some(session), api_key: None })
SessionIdentity_BothPopulated(r) ==
    [kind |-> "ok", user |-> r.user, session |-> Some(r.record), api_key |-> Some(r.record)]
SessionIdentity(r) ==
    [kind |-> "ok", user |-> r.user, session |-> Some(r.record), api_key |-> None]

\* Ok(AuthUser { user, session: None, api_key: Some(api_key) })
ApiKeyIdentity_AsSession(r) ==
    [kind |-> "ok", user |-> r.user, session |-> Some(r.record), api_key |-> None]
ApiKeyIdentity(r) ==
    [kind |-> "ok", user |-> r.user, session |-> None, api_key |-> Some(r.record)]

\* Err(AuthError("Invalid token".to_string())): the two stores' errors were
\* dropped by the `if let Ok(..)` patterns and are not part of the value.
AuthErrorOf_WithReason(sessionErr, apiKeyErr) ==
    [kind |-> "err", msg |-> <<"Invalid token", sessionErr.reason, apiKeyErr.reason>>]
AuthErrorOf(sessionErr, apiKeyErr) ==
    [kind |-> "err", msg |-> "Invalid token"]

\* A request handler calls validate_token(token, auth).
ValidateStart(t) ==
    /\ vpc = "idle"
    /\ vpc' = "session"
    /\ vtoken' = t
    /\ vcalls' = <<>>
    /\ vresult' = NoResult
    /\ UNCHANGED <<sessions, apiKeys, vprev>>
    /\ UNCHANGED outsideAuth

\* auth.validate_session(token).await, and the early return on Ok.
ValidateSessionStep_Consumes ==
    /\ vpc = "session"
    /\ LET r == ValidateSession(vtoken) IN
        /\ vcalls' = Append(vcalls, [op |-> "validate_session", res |-> r])
        /\ IF r.ok
           THEN /\ vresult' = SessionIdentity(r)
                /\ vpc' = "done"
                /\ sessions' = [sessions EXCEPT ![vtoken].verdict = "expired"]
           ELSE /\ vresult' = vresult
                /\ vpc' = "apikey"
                /\ sessions' = sessions
    /\ UNCHANGED <<apiKeys, vtoken, vprev>>
    /\ UNCHANGED outsideAuth
ValidateSessionStep_NoReturn ==
    /\ vpc = "session"
    /\ LET r == ValidateSession(vtoken) IN
        /\ vcalls' = Append(vcalls, [op |-> "validate_session", res |-> r])
        /\ vresult' = IF r.ok THEN SessionIdentity(r) ELSE vresult
        /\ vpc' = "apikey"
    /\ UNCHANGED <<sessions, apiKeys, vtoken, vprev>>
    /\ UNCHANGED outsideAuth
ValidateSessionStep ==
    /\ vpc = "session"
    /\ LET r == ValidateSession(vtoken) IN
        /\ vcalls' = Append(vcalls, [op |-> "validate_session", res |-> r])
        /\ IF r.ok
           THEN vresult' = SessionIdentity(r) /\ vpc' = "done"
           ELSE vresult' = vresult /\ vpc' = "apikey"
    /\ UNCHANGED <<sessions, apiKeys, vtoken, vprev>>
    /\ UNCHANGED outsideAuth

\* auth.validate_api_key(token).await, the return on Ok, and the final Err.
ValidateApiKeyStep ==
    /\ vpc = "apikey"
    /\ LET r == ValidateApiKey(vtoken) IN
        /\ vcalls' = Append(vcalls, [op |-> "validate_api_key", res |-> r])
        /\ vresult' = IF r.ok THEN ApiKeyIdentity(r)
                              ELSE AuthErrorOf(vcalls[1].res, r)
        /\ vpc' = "done"
    /\ UNCHANGED <<sessions, apiKeys, vtoken, vprev>>
    /\ UNCHANGED outsideAuth

\* The caller takes the result; the call keeps nothing.
ValidateReturn ==
    /\ vpc = "done"
    /\ vpc' = "idle"
    /\ vprev' = [token |-> vtoken, calls |-> vcalls, result |-> vresult]
    /\ UNCHANGED <<sessions, apiKeys, vtoken, vcalls, vresult>>
    /\ UNCHANGED outsideAuth

\* The stores change under other components while calls are in flight.
SessionExpires(t) ==
    /\ sessions[t].verdict = "valid"
    /\ sessions' = [sessions EXCEPT ![t].verdict = "expired"]
    /\ UNCHANGED <<apiKeys, vpc, vtoken, vcalls, vresult, vprev>>
    /\ UNCHANGED outsideAuth

ApiKeyRevoked(t) ==
    /\ apiKeys[t].verdict = "valid"
    /\ apiKeys' = [apiKeys EXCEPT ![t].verdict = "revoked"]
    /\ UNCHANGED <<sessions, vpc, vtoken, vcalls, vresult, vprev>>
    /\ UNCHANGED outsideAuth

AuthInit ==
    /\ sessions \in [Tokens -> SessionEntries]
    /\ apiKeys \in [Tokens -> ApiKeyEntries]
    /\ vpc = "idle"
    /\ vtoken = "ak_123"
    /\ vcalls = <<>>
    /\ vresult = NoResult
    /\ vprev = [token |-> "ak_123", calls |-> <<>>, result |-> NoResult]

AuthNext ==
    \/ \E t \in Tokens : ValidateStart(t)
    \/ ValidateSessionStep
    \/ ValidateApiKeyStep
    \/ ValidateReturn
    \/ \E t \in Tokens : SessionExpires(t)
    \/ \E t \in Tokens : ApiKeyRevoked(t)

\* ========================================================================
\* Part 2.  The login command, the browser handshake and the callback
\*          listener (driftwatch-cli/src/commands/auth.rs)
\* ========================================================================

\* Connections the loopback listener gets to accept during one attempt.
MaxConns == 2
\* Seconds by which the model's clock advances while the coordinator waits.
TickSecs == 300
\* tokio::time::timeout(Duration::from_secs(300), rx)
TimeoutSecs == 300

ConnIds == 1..MaxConns

\* ---- strings are sequences of bytes ------------------------------------

\* The bytes of the characters the model writes its strings with.
Code ==
    ("%" :> 37) @@ ("&" :> 38) @@ ("1" :> 49) @@ ("3" :> 51) @@ ("4" :> 52) @@
    ("=" :> 61) @@ ("A" :> 65) @@ ("D" :> 68) @@ ("F" :> 70) @@ ("a" :> 97) @@
    ("b" :> 98) @@ ("c" :> 99) @@ ("d" :> 100) @@ ("e" :> 101) @@ ("i" :> 105) @@
    ("k" :> 107) @@ ("l" :> 108) @@ ("n" :> 110) @@ ("o" :> 111) @@ ("t" :> 116) @@
    ("x" :> 120) @@
    (" " :> 32) @@ ("+" :> 43) @@ ("-" :> 45) @@ ("/" :> 47) @@ ("0" :> 48) @@
    ("2" :> 50) @@ ("5" :> 53) @@ ("6" :> 54) @@ ("7" :> 55) @@ ("8" :> 56) @@
    ("9" :> 57) @@ ("f" :> 102) @@ ("g" :> 103) @@ ("h" :> 104) @@ ("m" :> 109) @@
    ("p" :> 112) @@ ("r" :> 114) @@ ("s" :> 115) @@ ("u" :> 117)
Bytes(chars) == [i \in 1..Len(chars) |-> Code[chars[i]]]

\* from_hex_digit of the urlencoding crate: b'0'..=b'9', b'A'..=b'F', b'a'..=b'f'
IsHex(b) == (b >= 48 /\ b <= 57) \/ (b >= 65 /\ b <= 70) \/ (b >= 97 /\ b <= 102)
HexVal(b) == IF b <= 57 THEN b - 48 ELSE IF b <= 70 THEN b - 55 ELSE b - 87

\* urlencoding::decode_binary: %XX becomes the byte; a '%' not followed by two
\* hex digits is kept as it stands.
RECURSIVE DecodeBinary(_)
DecodeBinary(s) ==
    IF s = <<>> THEN <<>>
    ELSE IF Head(s) # 37 THEN <<Head(s)>> \o DecodeBinary(Tail(s))
    ELSE LET rest == Tail(s) IN
         IF Len(rest) < 2 THEN <<37>> \o rest
         ELSE IF ~IsHex(rest[1]) THEN <<37>> \o DecodeBinary(rest)
         ELSE IF ~IsHex(rest[2]) THEN <<37, rest[1]>> \o DecodeBinary(Tail(rest))
         ELSE <<16 * HexVal(rest[1]) + HexVal(rest[2])>>
                  \o DecodeBinary(SubSeq(rest, 3, Len(rest)))

IsByte(x) == x \in 0..255
IsCont(x) == IsByte(x) /\ x >= 128 /\ x <= 191

\* String::from_utf8: whether the bytes are well-formed UTF-8.
RECURSIVE Utf8Valid(_)
Utf8Valid(s) ==
    IF s = <<>> THEN TRUE
    ELSE LET b == Head(s) IN
         IF b < 128 THEN Utf8Valid(Tail(s))
         ELSE IF b >= 194 /\ b <= 223
              THEN Len(s) >= 2 /\ IsCont(s[2]) /\ Utf8Valid(SubSeq(s, 3, Len(s)))
         ELSE IF b >= 224 /\ b <= 239
              THEN /\ Len(s) >= 3 /\ IsCont(s[2]) /\ IsCont(s[3])
                   /\ (b = 224 => s[2] >= 160)
                   /\ (b = 237 => s[2] <= 159)
                   /\ Utf8Valid(SubSeq(s, 4, Len(s)))
         ELSE IF b >= 240 /\ b <= 244
              THEN /\ Len(s) >= 4 /\ IsCont(s[2]) /\ IsCont(s[3]) /\ IsCont(s[4])
                   /\ (b = 240 => s[2] >= 144)
                   /\ (b = 244 => s[2] <= 143)
                   /\ Utf8Valid(SubSeq(s, 5, Len(s)))
         ELSE FALSE

\* urlencoding::decode(value).unwrap_or_default().to_string()
UrlDecodeOrDefault_Raw(value) == value
UrlDecodeOrDefault(value) ==
    LET bytes == DecodeBinary(value) IN
    IF Utf8Valid(bytes) THEN bytes ELSE <<>>

\* str::split(ch): the pieces between the separators (one piece when there is none)
RECURSIVE SplitOn(_, _)
SplitOn(s, ch) ==
    IF \A i \in 1..Len(s) : s[i] # ch THEN <<s>>
    ELSE LET k == CHOOSE i \in 1..Len(s) : s[i] = ch /\ \A j \in 1..(i - 1) : s[j] # ch
         IN <<SubSeq(s, 1, k - 1)>> \o SplitOn(SubSeq(s, k + 1, Len(s)), ch)

\* str::splitn(2, ch): at most two pieces, split at the first separator
Splitn2(s, ch) ==
    IF \A i \in 1..Len(s) : s[i] # ch THEN <<s>>
    ELSE LET k == CHOOSE i \in 1..Len(s) : s[i] = ch /\ \A j \in 1..(i - 1) : s[j] # ch
         IN <<SubSeq(s, 1, k - 1), SubSeq(s, k + 1, Len(s))>>

TokenKey == Bytes(<<"t", "o", "k", "e", "n">>)

\* the `for pair in query.split('&')` loop: the first pair key=value with
\* key == "token" yields the decoded value
RECURSIVE FirstTokenPair(_)
FirstTokenPair(pairs) ==
    IF pairs = <<>> THEN None
    ELSE LET parts == Splitn2(Head(pairs), Code["="]) IN
         IF Len(parts) = 2 /\ parts[1] = TokenKey
         THEN Some(UrlDecodeOrDefault(parts[2]))
         ELSE FirstTokenPair(Tail(pairs))

\* handle_callback up to the slot: Some(token) when the request carries a token
\* (answered 200), None when it is answered 400
CallbackToken_AnyPath(req) ==
    IF req.query.some THEN FirstTokenPair(SplitOn(req.query.val, Code["&"])) ELSE None
CallbackToken_RejectsEmpty(req) ==
    LET t == IF req.path = "/callback" /\ req.query.some
             THEN FirstTokenPair(SplitOn(req.query.val, Code["&"]))
             ELSE None
    IN  IF t.some /\ t.val = <<>> THEN None ELSE t
CallbackToken(req) ==
    IF req.path = "/callback" /\ req.query.some
    THEN FirstTokenPair(SplitOn(req.query.val, Code["&"]))
    ELSE None

\* ---- the requests the listener is sent ---------------------------------

\* GET /callback?token=ab
ReqPlain ==
    [path |-> "/callback", query |-> Some(Bytes(<<"t","o","k","e","n","=","a","b">>))]
\* GET /callback?x=1&token=%41%3Db    (the credential "A=b", percent-encoded)
ReqEncoded ==
    [path |-> "/callback",
     query |-> Some(Bytes(<<"x","=","1","&","t","o","k","e","n","=","%","4","1","%","3","D","b">>))]
\* GET /callback?token=
ReqEmptyToken ==
    [path |-> "/callback", query |-> Some(Bytes(<<"t","o","k","e","n","=">>))]
\* GET /callback?token=%FF            (not UTF-8 once decoded)
ReqBadUtf8 ==
    [path |-> "/callback", query |-> Some(Bytes(<<"t","o","k","e","n","=","%","F","F">>))]
\* GET /?token=ab
ReqWrongPath ==
    [path |-> "/", query |-> Some(Bytes(<<"t","o","k","e","n","=","a","b">>))]
\* GET /callback
ReqNoQuery ==
    [path |-> "/callback", query |-> None]
\* GET /callback?tok=ab&token
ReqNoTokenParam ==
    [path |-> "/callback", query |-> Some(Bytes(<<"t","o","k","=","a","b","&","t","o","k","e","n">>))]

Requests ==
    {ReqPlain, ReqEncoded, ReqEmptyToken, ReqBadUtf8, ReqWrongPath, ReqNoQuery,
     ReqNoTokenParam}

NoReq == [path |-> "", query |-> None]
NoConn == [st |-> "none", req |-> NoReq, resp |-> [status |-> 0, ctype |-> ""], sender |-> FALSE]

\* ---- the command's inputs and the configuration file -------------------

DEFAULT_API_URL == "https://driftwatch.dev"
\* imported from crate::api; only its name matters here
DEFAULT_GRPC_URL == "DEFAULT_GRPC_URL"
\* (--api-url, --grpc-url) of an invocation: the defaults, or a self-hosted instance
UrlArgs ==
    {<<DEFAULT_API_URL, DEFAULT_GRPC_URL>>,
     <<"http://localhost:4000", "http://localhost:50051">>}
\* the URLs of the invocations that log in through the browser
BrowserUrlArgs == {<<"http://localhost:4000", "http://localhost:50051">>}
ExplicitTokens == {Bytes(<<"c","l","i">>)}

NoFile == [kind |-> "absent"]
\* what a failed fs::write may leave behind: the file truncated or partly written
TruncatedFile == [kind |-> "truncated"]
ConfigOf(token, api, grpc) ==
    [kind |-> "file", token |-> token, api_url |-> api, grpc_url |-> grpc]
OldConfig == ConfigOf(Bytes(<<"o","l","d">>), "http://localhost:4000", DEFAULT_GRPC_URL)

EmptyChan == [st |-> "empty", val |-> <<>>, at |-> 0]

\* ---- shared helpers -----------------------------------------------------

\* The Arc around the slot is held by the accept task and by every connection
\* task it spawned; with the last holder gone a Sender still in the slot is dropped.
NoHolderLeft(al, cs) ==
    /\ al # "running"
    /\ \A c \in ConnIds : cs[c].st \in {"none", "done"}

SlotAfter(s, al, cs) ==
    IF s = "sender" /\ NoHolderLeft(al, cs) THEN "dropped" ELSE s

\* rx sees the channel closed when the Sender is dropped without a send
ChanAfter(ch, s, al, cs) ==
    IF s = "sender" /\ NoHolderLeft(al, cs) /\ ch.st = "empty"
    THEN [st |-> "closed", val |-> <<>>, at |-> 0]
    ELSE ch

\* rx lives in browser_login's frame, inside the timeout future
RxAlive == pc = "await"

TimerElapsed == elapsed >= TimeoutSecs

\* tasks run from the start of the command until the process ends
Running == pc # "idle"

Response200 == [status |-> 200, ctype |-> "text/html"]
Response400 == [status |-> 400, ctype |-> ""]

\* ---- the login command -------------------------------------------------

LoginStart_AlwaysBrowser(tok, api, grpc) ==
    /\ pc = "idle"
    /\ argToken' = tok
    /\ argApi' = api
    /\ argGrpc' = grpc
    /\ configBefore' = configFile
    /\ pc' = "bind"
    /\ cred' = None
    /\ effects' = <<>>
    /\ UNCHANGED <<outcome, err, configFile, browser, acceptLoop, slot, chan, mutex,
                   conns, taker, elapsed>>
    /\ UNCHANGED outsideLogin
\* login(token, api_url, grpc_url): `match token`
LoginStart(tok, api, grpc) ==
    /\ pc = "idle"
    /\ argToken' = tok
    /\ argApi' = api
    /\ argGrpc' = grpc
    /\ configBefore' = configFile
    /\ IF tok.some
       THEN pc' = "connect" /\ cred' = tok
       ELSE pc' = "bind" /\ cred' = None
    /\ UNCHANGED <<outcome, err, configFile, browser, acceptLoop, slot, chan, mutex,
                   conns, taker, elapsed>>
    /\ effects' = <<>>
    /\ UNCHANGED outsideLogin

\* browser_login, lines 124-157, after the bind: what it does and in which order
Prologue(opened) ==
    <<"print_url", "open_browser">>
      \o (IF opened THEN <<>> ELSE <<"eprint_open_failed">>)
      \o <<"print_waiting", "spawn_accept_loop", "await_timeout">>

BindOk_FatalOpen(opened) ==
    /\ pc = "bind"
    /\ browser' = IF opened THEN "opened" ELSE "failed"
    /\ effects' = Prologue(opened)
    /\ IF opened
       THEN /\ pc' = "await"
            /\ outcome' = "AwaitingBrowser"
            /\ slot' = "sender"
            /\ acceptLoop' = "running"
            /\ err' = err
       ELSE /\ pc' = "returned"
            /\ outcome' = "Failed"
            /\ slot' = "dropped"
            /\ acceptLoop' = "none"
            /\ err' = "recv"
    /\ chan' = EmptyChan
    /\ elapsed' = 0
    /\ UNCHANGED <<argToken, argApi, argGrpc, cred, configFile, configBefore,
                   mutex, conns, taker>>
    /\ UNCHANGED outsideLogin
\* browser_login: bind succeeded; the channel and the slot are created, the
\* URL is printed, the browser is opened (or not), the accept task is spawned,
\* and the coordinator starts waiting on timeout(300 s, rx).
BindOk(opened) ==
    /\ pc = "bind"
    /\ pc' = "await"
    /\ outcome' = "AwaitingBrowser"
    /\ slot' = "sender"
    /\ chan' = EmptyChan
    /\ browser' = IF opened THEN "opened" ELSE "failed"
    /\ acceptLoop' = "running"
    /\ elapsed' = 0
    /\ UNCHANGED <<argToken, argApi, argGrpc, cred, err, configFile, configBefore,
                   mutex, conns, taker>>
    /\ effects' = Prologue(opened)
    /\ UNCHANGED outsideLogin

\* TokioTcpListener::bind("127.0.0.1:0").await?
BindFail ==
    /\ pc = "bind"
    /\ pc' = "returned"
    /\ outcome' = "Failed"
    /\ err' = "bind"
    /\ UNCHANGED <<argToken, argApi, argGrpc, cred, configFile, configBefore, browser,
                   acceptLoop, slot, chan, mutex, conns, taker, elapsed>>
    /\ UNCHANGED <<effects, outsideLogin>>

\* Time passes while the coordinator waits.
Tick ==
    /\ pc = "await"
    /\ ~TimerElapsed
    /\ elapsed' = IF elapsed + TickSecs >= TimeoutSecs THEN TimeoutSecs
                  ELSE elapsed + TickSecs
    /\ UNCHANGED <<pc, argToken, argApi, argGrpc, cred, outcome, err, configFile,
                   configBefore, browser, acceptLoop, slot, chan, mutex, conns, taker>>
    /\ UNCHANGED <<effects, outsideLogin>>

\* What timeout(.., rx).await resolves to: Timeout polls rx first and the
\* timer only when rx is pending.
TimeoutResolution_IgnoresClosed(ch, timerElapsed) ==
    IF ch.st = "value" THEN "Delivered"
    ELSE IF timerElapsed THEN "TimedOut"
    ELSE "Pending"
TimeoutResolution_NoDeadline(ch, timerElapsed) ==
    IF ch.st = "value" THEN "Delivered"
    ELSE IF ch.st = "closed" THEN "Failed"
    ELSE "Pending"
TimeoutResolution(ch, timerElapsed) ==
    IF ch.st = "value" THEN "Delivered"
    ELSE IF ch.st = "closed" THEN "Failed"
    ELSE IF timerElapsed THEN "TimedOut"
    ELSE "Pending"

\* Whether browser_login calls server_handle.abort() on leaving with this
\* resolution: the two `?` return before the call.
AbortsOn(res) == res = "Delivered"

\* The error each `?` after the wait returns with its context:
\* "Authentication timed out (5 minutes)" / "Failed to receive token"
AwaitError_Swapped(res) == IF res = "TimedOut" THEN "recv" ELSE "timeout"
AwaitError(res) == IF res = "TimedOut" THEN "timeout" ELSE "recv"

\* The wait ends: the two `?`, server_handle.abort(), Ok(token).
AwaitResolve ==
    /\ pc = "await"
    /\ LET res == TimeoutResolution(chan, TimerElapsed) IN
        /\ res # "Pending"
        /\ outcome' = res
        /\ acceptLoop' = IF AbortsOn(res) /\ acceptLoop = "running" THEN "aborted"
                         ELSE acceptLoop
        /\ slot' = SlotAfter(slot, acceptLoop', conns)
        /\ IF res = "Delivered"
           THEN /\ cred' = Some(chan.val)
                /\ pc' = "connect"
                /\ err' = err
           ELSE /\ cred' = cred
                /\ pc' = "returned"
                /\ err' = AwaitError(res)
    /\ UNCHANGED <<argToken, argApi, argGrpc, configFile, configBefore, browser, chan,
                   mutex, conns, taker, elapsed>>
    /\ UNCHANGED <<effects, outsideLogin>>

\* Channel::from_shared(grpc_url)?.connect().await?
ConnectOk ==
    /\ pc = "connect"
    /\ pc' = "getme"
    /\ UNCHANGED <<argToken, argApi, argGrpc, cred, outcome, err, configFile,
                   configBefore, browser, acceptLoop, slot, chan, mutex, conns, taker,
                   elapsed>>
    /\ UNCHANGED <<effects, outsideLogin>>

ConnectFail ==
    /\ pc = "connect"
    /\ pc' = "returned"
    /\ err' = "connect"
    /\ UNCHANGED <<argToken, argApi, argGrpc, cred, outcome, configFile, configBefore,
                   browser, acceptLoop, slot, chan, mutex, conns, taker, elapsed>>
    /\ UNCHANGED <<effects, outsideLogin>>

\* client.get_me(..).await failed ("Token validation failed"), or the response
\* carried no user ("No user returned")
GetMeFail_SavesFirst(kind) ==
    /\ pc = "getme"
    /\ pc' = "returned"
    /\ err' = kind
    /\ configFile' = ConfigOf(cred.val, argApi, argGrpc)
    /\ UNCHANGED <<argToken, argApi, argGrpc, cred, outcome, configBefore,
                   browser, acceptLoop, slot, chan, mutex, conns, taker, elapsed>>
    /\ UNCHANGED <<effects, outsideLogin>>
GetMeFail(kind) ==
    /\ pc = "getme"
    /\ pc' = "returned"
    /\ err' = kind
    /\ UNCHANGED <<argToken, argApi, argGrpc, cred, outcome, configFile, configBefore,
                   browser, acceptLoop, slot, chan, mutex, conns, taker, elapsed>>
    /\ UNCHANGED <<effects, outsideLogin>>

\* The configuration login writes: Config { token, api_url, grpc_url }
LoginConfig(token, api, grpc) == ConfigOf(token, api, grpc)

\* get_me returned a user; the configuration is written: Ok(())
GetMeOkPersist ==
    /\ pc = "getme"
    /\ pc' = "returned"
    /\ configFile' = LoginConfig(cred.val, argApi, argGrpc)
    /\ UNCHANGED <<argToken, argApi, argGrpc, cred, outcome, err, configBefore, browser,
                   acceptLoop, slot, chan, mutex, conns, taker, elapsed>>
    /\ UNCHANGED <<effects, outsideLogin>>

\* get_me returned a user, but fs::create_dir_all(parent)? or fs::write(..)?
\* failed: the file is as before, or truncated by the failed write.
GetMeOkPersistFail(damaged) ==
    /\ pc = "getme"
    /\ pc' = "returned"
    /\ err' = "io"
    /\ configFile' = IF damaged THEN TruncatedFile ELSE configFile
    /\ UNCHANGED <<argToken, argApi, argGrpc, cred, outcome, configBefore, browser,
                   acceptLoop, slot, chan, mutex, conns, taker, elapsed>>
    /\ UNCHANGED <<effects, outsideLogin>>

\* ---- the callback listener ---------------------------------------------

\* listener.accept().await returned a connection; its handler task is spawned
\* with a clone of the Arc. `req` is the request the peer sends on it.
ConnAccept_Serial(c, req) ==
    /\ Running
    /\ acceptLoop = "running"
    /\ conns[c].st = "none"
    /\ \A d \in ConnIds : d < c => conns[d].st = "done"
    /\ conns' = [conns EXCEPT ![c] = [NoConn EXCEPT !.st = "accepted", !.req = req]]
    /\ UNCHANGED <<pc, argToken, argApi, argGrpc, cred, outcome, err, configFile,
                   configBefore, browser, acceptLoop, slot, chan, mutex, taker, elapsed>>
    /\ UNCHANGED <<effects, outsideLogin>>
ConnAccept(c, req) ==
    /\ Running
    /\ acceptLoop = "running"
    /\ conns[c].st = "none"
    /\ \A d \in ConnIds : d < c => conns[d].st # "none"
    /\ conns' = [conns EXCEPT ![c] = [NoConn EXCEPT !.st = "accepted", !.req = req]]
    /\ UNCHANGED <<pc, argToken, argApi, argGrpc, cred, outcome, err, configFile,
                   configBefore, browser, acceptLoop, slot, chan, mutex, taker, elapsed>>
    /\ UNCHANGED <<effects, outsideLogin>>

\* listener.accept().await returned a connection whose peer never sends a
\* complete request: its task is spawned with a clone of the Arc and stays in
\* serve_connection, waiting for the request, for good.
ConnOpen(c) ==
    /\ Running
    /\ acceptLoop = "running"
    /\ conns[c].st = "none"
    /\ \A d \in ConnIds : d < c => conns[d].st # "none"
    /\ conns' = [conns EXCEPT ![c] = [NoConn EXCEPT !.st = "open"]]
    /\ UNCHANGED <<pc, argToken, argApi, argGrpc, cred, outcome, err, configFile,
                   configBefore, browser, acceptLoop, slot, chan, mutex, taker, elapsed>>
    /\ UNCHANGED <<effects, outsideLogin>>

\* listener.accept().await.expect("Failed to accept") panics: the accept task
\* ends and drops the listener and its clone of the Arc.
AcceptPanic ==
    /\ Running
    /\ acceptLoop = "running"
    /\ acceptLoop' = "panicked"
    /\ slot' = SlotAfter(slot, "panicked", conns)
    /\ chan' = ChanAfter(chan, slot, "panicked", conns)
    /\ UNCHANGED <<pc, argToken, argApi, argGrpc, cred, outcome, err, configFile,
                   configBefore, browser, mutex, conns, taker, elapsed>>
    /\ UNCHANGED <<effects, outsideLogin>>

\* handle_callback on a request with no token to hand over: the 400 response;
\* the connection task ends and drops its clone of the Arc.
HandleBadRequest(c) ==
    /\ Running
    /\ conns[c].st = "accepted"
    /\ ~CallbackToken(conns[c].req).some
    /\ conns' = [conns EXCEPT ![c].st = "done", ![c].resp = Response400]
    /\ slot' = SlotAfter(slot, acceptLoop, conns')
    /\ chan' = ChanAfter(chan, slot, acceptLoop, conns')
    /\ UNCHANGED <<pc, argToken, argApi, argGrpc, cred, outcome, err, configFile,
                   configBefore, browser, acceptLoop, mutex, taker, elapsed>>
    /\ UNCHANGED <<effects, outsideLogin>>

\* tx.lock().await.take(): the lock is acquired and the Option taken
TakeFromSlot_NoTake(c) ==
    /\ mutex = 0
    /\ mutex' = c
    /\ conns' = [conns EXCEPT ![c].st = "holding", ![c].sender = (slot = "sender")]
    /\ slot' = slot
    /\ taker' = IF taker = 0 THEN c ELSE taker
TakeFromSlot(c) ==
    /\ mutex = 0
    /\ mutex' = c
    /\ conns' = [conns EXCEPT ![c].st = "holding", ![c].sender = (slot = "sender")]
    /\ slot' = IF slot = "sender" THEN "taken" ELSE slot
    /\ taker' = IF taker = 0 THEN c ELSE taker

\* handle_callback on a request with a token: the token is decoded and the
\* handler reaches tx.lock().await; the lock is taken at once when it is free.
HandleTokenRequest(c) ==
    /\ Running
    /\ conns[c].st = "accepted"
    /\ CallbackToken(conns[c].req).some
    /\ IF mutex = 0
       THEN TakeFromSlot(c)
       ELSE /\ conns' = [conns EXCEPT ![c].st = "wantlock"]
            /\ UNCHANGED <<mutex, slot, taker>>
    /\ UNCHANGED <<pc, argToken, argApi, argGrpc, cred, outcome, err, configFile,
                   configBefore, browser, acceptLoop, chan, elapsed>>
    /\ UNCHANGED <<effects, outsideLogin>>

\* a handler waiting in tx.lock().await gets the lock
LockGranted(c) ==
    /\ Running
    /\ conns[c].st = "wantlock"
    /\ TakeFromSlot(c)
    /\ UNCHANGED <<pc, argToken, argApi, argGrpc, cred, outcome, err, configFile,
                   configBefore, browser, acceptLoop, chan, elapsed>>
    /\ UNCHANGED <<effects, outsideLogin>>

\* `let _ = sender.send(token)` when take() gave Some(sender) (the send fails,
\* and the token is dropped, when rx is gone); the guard is released and the
\* 200 response with the HTML page is returned.
SendAndRespond_RejectsLate(c) ==
    /\ Running
    /\ conns[c].st = "holding"
    /\ mutex = c
    /\ mutex' = 0
    /\ chan' = IF conns[c].sender /\ RxAlive
               THEN [st |-> "value", val |-> CallbackToken(conns[c].req).val,
                     at |-> elapsed]
               ELSE chan
    /\ conns' = [conns EXCEPT ![c].st = "done",
                             ![c].resp = IF conns[c].sender THEN Response200
                                         ELSE Response400,
                             ![c].sender = FALSE]
    /\ UNCHANGED <<pc, argToken, argApi, argGrpc, cred, outcome, err, configFile,
                   configBefore, browser, acceptLoop, slot, taker, elapsed>>
    /\ UNCHANGED <<effects, outsideLogin>>
SendAndRespond(c) ==
    /\ Running
    /\ conns[c].st = "holding"
    /\ mutex = c
    /\ mutex' = 0
    /\ chan' = IF conns[c].sender /\ RxAlive
               THEN [st |-> "value", val |-> CallbackToken(conns[c].req).val,
                     at |-> elapsed]
               ELSE chan
    /\ conns' = [conns EXCEPT ![c].st = "done", ![c].resp = Response200,
                             ![c].sender = FALSE]
    /\ UNCHANGED <<pc, argToken, argApi, argGrpc, cred, outcome, err, configFile,
                   configBefore, browser, acceptLoop, slot, taker, elapsed>>
    /\ UNCHANGED <<effects, outsideLogin>>

\* ========================================================================
\* Part 3.  The configuration file across commands: Config::load
\*          (driftwatch-cli/src/api.rs), logout, and login's exit
\* ========================================================================

\* The environment of a command: DRIFTWATCH_TOKEN and DRIFTWATCH_API_URL.
EnvTokens == {None, Some(Bytes(<<"a","k">>))}
EnvApiUrls == {None, Some("https://env.example")}
Envs == [token : EnvTokens, api_url : EnvApiUrls]
NoEnv == [token |-> None, api_url |-> None]

NotAuthenticated ==
    [kind |-> "err", msg |-> "Not authenticated. Run 'driftwatch auth login' first."]
InvalidConfig == [kind |-> "err", msg |-> "Invalid config file"]
IoError == [kind |-> "err", msg |-> "io"]
Done(printed) == [kind |-> "ok", printed |-> printed]

\* Config::load(): the environment token wins over the file; otherwise the
\* file is read and parsed (a truncated file does not parse), and api_url is
\* replaced by the environment's value when that is set.
LoadConfig_FileFirst(env, file) ==
    IF file.kind = "absent" THEN NotAuthenticated
    ELSE IF file.kind = "truncated" THEN InvalidConfig
    ELSE [kind |-> "ok",
          config |-> [token |-> IF env.token.some THEN env.token.val ELSE file.token,
                      api_url |-> IF env.api_url.some THEN env.api_url.val
                                  ELSE file.api_url]]
LoadConfig(env, file) ==
    LET api_url == IF env.api_url.some THEN env.api_url.val ELSE DEFAULT_API_URL
    IN  IF env.token.some
        THEN [kind |-> "ok", config |-> [token |-> env.token.val, api_url |-> api_url]]
        ELSE IF file.kind = "absent" THEN NotAuthenticated
        ELSE IF file.kind = "truncated" THEN InvalidConfig
        ELSE [kind |-> "ok",
              config |-> [token |-> file.token,
                          api_url |-> IF env.api_url.some THEN api_url
                                      ELSE file.api_url]]

NoCmd == [cmd |-> "none",
          prev |-> [cmd |-> "none", ok |-> TRUE, before |-> NoFile],
          env |-> NoEnv, before |-> NoFile, result |-> Done("")]
\* the command before the one that is recorded next
Prev == [cmd |-> last.cmd, ok |-> last.result.kind = "ok", before |-> last.before]

\* the login process has exited: its locals are gone, the file stays
LoginLocalsReset ==
    /\ pc' = "idle"
    /\ argToken' = None
    /\ argApi' = DEFAULT_API_URL
    /\ argGrpc' = DEFAULT_GRPC_URL
    /\ cred' = None
    /\ outcome' = "Idle"
    /\ err' = "none"
    /\ configBefore' = configFile
    /\ effects' = <<>>

\* login returns to main and the process exits
LoginExit ==
    /\ pc = "returned"
    /\ acceptLoop = "none"
    /\ LoginLocalsReset
    /\ last' = [cmd |-> "login", prev |-> Prev, env |-> NoEnv,
                before |-> configBefore,
                result |-> IF err = "none" THEN Done("Authenticated as")
                           ELSE [kind |-> "err", msg |-> err]]
    /\ UNCHANGED <<configFile, browser, acceptLoop, slot, chan, mutex, conns, taker,
                   elapsed>>
    /\ UNCHANGED <<authVars, loaderVars, runVars, parseVars>>

\* a command that starts with Config::load() (status, run, ...), in the
\* environment env
LoadCommand(env) ==
    /\ pc = "idle"
    /\ last' = [cmd |-> "load", prev |-> Prev, env |-> env,
                before |-> configFile, result |-> LoadConfig(env, configFile)]
    /\ UNCHANGED <<pc, argToken, argApi, argGrpc, cred, outcome, err, configFile,
                   configBefore, browser, acceptLoop, slot, chan, mutex, conns, taker,
                   elapsed, effects>>
    /\ UNCHANGED <<authVars, loaderVars, runVars, parseVars>>

\* logout(): remove the file if it exists
Logout_KeepsFile ==
    /\ pc = "idle"
    /\ last' = [cmd |-> "logout", prev |-> Prev, env |-> NoEnv,
                before |-> configFile,
                result |-> Done("Logged out successfully")]
    /\ UNCHANGED <<pc, argToken, argApi, argGrpc, cred, outcome, err, configFile,
                   configBefore, browser, acceptLoop, slot, chan, mutex, conns, taker,
                   elapsed, effects>>
    /\ UNCHANGED <<authVars, loaderVars, runVars, parseVars>>
Logout ==
    /\ pc = "idle"
    /\ configFile' = NoFile
    /\ last' = [cmd |-> "logout", prev |-> Prev, env |-> NoEnv,
                before |-> configFile,
                result |-> IF configFile.kind # "absent"
                           THEN Done("Logged out successfully")
                           ELSE Done("Not logged in")]
    /\ UNCHANGED <<pc, argToken, argApi, argGrpc, cred, outcome, err, configBefore,
                   browser, acceptLoop, slot, chan, mutex, conns, taker, elapsed,
                   effects>>
    /\ UNCHANGED <<authVars, loaderVars, runVars, parseVars>>

\* logout(): fs::remove_file(&config_path)? fails, the file stays
LogoutFail ==
    /\ pc = "idle"
    /\ configFile.kind # "absent"
    /\ last' = [cmd |-> "logout", prev |-> Prev, env |-> NoEnv,
                before |-> configFile, result |-> IoError]
    /\ UNCHANGED <<pc, argToken, argApi, argGrpc, cred, outcome, err, configFile,
                   configBefore, browser, acceptLoop, slot, chan, mutex, conns, taker,
                   elapsed, effects>>
    /\ UNCHANGED <<authVars, loaderVars, runVars, parseVars>>

CfgQuiet == last = NoCmd

\* ========================================================================
\* Part 4.  Batch loaders: define_loader! (driftwatch-api/src/loaders.rs)
\*          behind the request's batching resolver
\* ========================================================================

\* Longest list of keys one load call is given.
MaxKeyList == 3

\* Two of the six define_loader! instances; the macro body is the same for all.
Kinds == {"Branch", "Metric"}
\* Uuids
KeyNames == <<"A", "B", "C", "D">>
Range(s) == {s[i] : i \in 1..Len(s)}
Keys == Range(KeyNames)
RECURSIVE SetToSeq(_)
SetToSeq(S) ==
    IF S = {} THEN <<>>
    ELSE LET k == CHOOSE x \in S : TRUE IN <<k>> \o SetToSeq(S \ {k})
\* The key lists of a call: every set of at most MaxKeyList keys written as
\* a list, and the shorter ones also with a key written twice.  Neither the
\* resolver's key set nor the IN-list of the read depends on the order of the
\* keys or on which key is repeated.
KeyLists ==
    LET plain == {SetToSeq(S) : S \in {T \in SUBSET Keys : Cardinality(T) <= MaxKeyList}}
    IN  plain \cup {Append(l, l[1]) : l \in {p \in plain : Len(p) \in 1..(MaxKeyList - 1)}}

\* the tables a request may find
Tables ==
    {[k \in Kinds |-> IF k = "Branch" THEN Keys \ {"C"} ELSE {"A", "D"}],
     [k \in Kinds |-> IF k = "Branch" THEN Keys ELSE {}]}

\* entities::<kind>::Model of the row with this id
Row(kind, id) == [table |-> kind, id |-> id]
\* item.into(): the GraphQL type built from the row
Into(item) == [typename |-> item.table, id |-> item.id]

\* <$entity>::find().filter($column.is_in(keys.to_vec())).all(&self.db):
\* the rows of the kind's table whose id is one of the keys
FindAll_NoFilter(kind, keys) == {Row(kind, id) : id \in db[kind]}
FindAll(kind, keys) == {Row(kind, id) : id \in db[kind] \cap Range(keys)}

\* items.into_iter().map(|item| (item.id, item.into())).collect()
Collect(items) ==
    [id \in {item.id : item \in items} |->
        Into(CHOOSE item \in items : item.id = id)]

\* the bulk reads one Loader::load call sends to the database: one
\* `.all()` with the whole key list
BulkReads_PerKey(kind, keys) ==
    [i \in 1..Len(keys) |-> [kind |-> kind, keys |-> <<keys[i]>>]]
BulkReads(kind, keys) == <<[kind |-> kind, keys |-> keys]>>

DbErr == [kind |-> "err", msg |-> "DbErr"]

\* Loader::load(&self, keys): `.await?` returns the read's error, otherwise
\* the rows are collected into the map
LoaderLoad_EmptyOnError(kind, keys, readOk) ==
    [reads |-> BulkReads(kind, keys),
     result |-> IF readOk THEN [kind |-> "ok", map |-> Collect(FindAll(kind, keys))]
                ELSE [kind |-> "ok", map |-> Collect({})]]
LoaderLoad(kind, keys, readOk) ==
    [reads |-> BulkReads(kind, keys),
     result |-> IF readOk THEN [kind |-> "ok", map |-> Collect(FindAll(kind, keys))]
                ELSE DbErr]

\* ---- the request's resolver around the loaders --------------------------

\* the keys of a call that the request has not fetched yet, each once
Missing(kind, keys) == SetToSeq(Range(keys) \ fetched[kind])

NoLoad == [kind |-> "none", requested |-> {}, given |-> 0, passed |-> <<>>,
           before |-> {}, reads |-> <<>>, result |-> [kind |-> "none"]]

\* BatchResolver.load(keys) for one entity kind: the keys not yet fetched in
\* this request go to the kind's loader in one call; nothing is read when
\* every key was fetched before.  A failed read fetches nothing.
ResolverLoad(kind, keys, readOk) ==
    LET passed == Missing(kind, keys)
        call == IF passed = <<>>
                THEN [reads |-> <<>>, result |-> [kind |-> "ok", map |-> Collect({})]]
                ELSE LoaderLoad(kind, passed, readOk)
    IN  /\ lastLoad' = [kind |-> kind, requested |-> Range(keys), given |-> Len(keys),
                        passed |-> passed, before |-> fetched[kind],
                        reads |-> call.reads, result |-> call.result]
        /\ fetched' = IF call.result.kind = "ok"
                      THEN [fetched EXCEPT ![kind] = @ \cup Range(passed)]
                      ELSE fetched
        /\ UNCHANGED db
        /\ UNCHANGED <<authVars, loginVars, cfgVars, runVars, parseVars>>

\* the request is over; the next one starts with a fresh resolver
NewRequest ==
    /\ lastLoad # NoLoad
    /\ fetched' = [k \in Kinds |-> {}]
    /\ lastLoad' = NoLoad
    /\ UNCHANGED db
    /\ UNCHANGED <<authVars, loginVars, cfgVars, runVars, parseVars>>

LoaderQuiet ==
    /\ db = [k \in Kinds |-> {}]
    /\ fetched = [k \in Kinds |-> {}]
    /\ lastLoad = NoLoad

LoaderInit ==
    /\ db \in Tables
    /\ fetched = [k \in Kinds |-> {}]
    /\ lastLoad = NoLoad

LoaderNext ==
    \/ \E kind \in Kinds, keys \in KeyLists, readOk \in BOOLEAN :
          ResolverLoad(kind, keys, readOk)
    \/ NewRequest

\* ========================================================================
\* Part 5.  The API client and the run command
\*          (driftwatch-cli/src/api.rs, driftwatch-cli/src/commands/run.rs)
\* ========================================================================

\* Most --flamegraph files of one run.
MaxFiles == 2

\* const MAX_FILE_SIZE: i64 = 10 * 1024 * 1024
MAX_FILE_SIZE == 10 * 1024 * 1024

\* --flamegraph arguments: a path that does not exist, and files of some
\* sizes around the limit
FileKinds ==
    {[exists |-> FALSE, size |-> 0]}
      \cup {[exists |-> TRUE, size |-> s] : s \in {4096, MAX_FILE_SIZE, MAX_FILE_SIZE + 1}}
FileLists == UNION {[1..n -> FileKinds] : n \in 0..MaxFiles}
\* how many results parse_criterion_output finds in the command's output
ResultCounts == {0, 1, 3}
\* ids the server gives to created reports
ReportIds == {"report-1", "report-2"}
ProjectOps == {"projects", "project", "createProject"}

\* ApiClient::graphql: POST {base_url}/graphql with the Authorization and
\* Content-Type headers and the query as JSON
GraphqlRequest_NoAuth(token, op, args) ==
    [method |-> "POST", target |-> "graphql", auth |-> None,
     ctype |-> "application/json", op |-> op, args |-> args]
GraphqlRequest(token, op, args) ==
    [method |-> "POST", target |-> "graphql",
     auth |-> Some([scheme |-> "Bearer", credential |-> token]),
     ctype |-> "application/json", op |-> op, args |-> args]

\* ApiClient::upload_flamegraph_file: PUT signed_url with the Content-Type
\* header and the file as body
UploadRequest(signedUrl, file) ==
    [method |-> "PUT", target |-> signedUrl, auth |-> None,
     ctype |-> "image/svg+xml", op |-> "upload", args |-> [file |-> file]]

\* createFlamegraphUploadUrl's answer for the file at this position
UploadUrlFor(i) == [signed_url |-> "signed-url", storage_path |-> i]

NoArgs == [file |-> 0]
\* a request that was sent, and whether it came back as a success
Sent(req, ok) == [req |-> req, ok |-> ok]
RunOk == [kind |-> "ok"]
RunErr(msg) == [kind |-> "err", msg |-> msg]
RunRunning == [kind |-> "running"]
NoRun == [cmd |-> "none", env |-> NoEnv, dry_run |-> FALSE, files |-> <<>>,
          token |-> <<>>, results |-> 0]

\* handle(args, api_url): Config::load()? and ApiClient::new
RunStart(env, dryRun, files) ==
    /\ rpc = "idle"
    /\ LET r == LoadConfig(env, configFile) IN
        IF r.kind = "ok"
        THEN /\ rpc' = "exec"
             /\ rin' = [cmd |-> "run", env |-> env, dry_run |-> dryRun, files |-> files,
                        token |-> r.config.token, results |-> 0]
             /\ rres' = RunRunning
        ELSE /\ rpc' = "returned"
             /\ rin' = [cmd |-> "run", env |-> env, dry_run |-> dryRun, files |-> files,
                        token |-> <<>>, results |-> 0]
             /\ rres' = r
    /\ rreqs' = <<>>
    /\ rreport' = None
    /\ rfile' = 0
    /\ UNCHANGED <<authVars, loginVars, cfgVars, loaderVars, parseVars>>

\* Command::new("sh").args(["-c", &cmd]).output() fails
ExecFail ==
    /\ rpc = "exec"
    /\ rpc' = "returned"
    /\ rres' = RunErr("Failed to execute benchmark command")
    /\ UNCHANGED <<rin, rreqs, rreport, rfile>>
    /\ UNCHANGED <<authVars, loginVars, cfgVars, loaderVars, parseVars>>

\* the benchmark command ran and n results were parsed from its output:
\* return Ok when there are none, return Ok on --dry-run, else go on to submit
ExecDone_SubmitsAnyway(n) ==
    /\ rpc = "exec"
    /\ rin' = [rin EXCEPT !.results = n]
    /\ rpc' = "report"
    /\ rres' = rres
    /\ UNCHANGED <<rreqs, rreport, rfile>>
    /\ UNCHANGED <<authVars, loginVars, cfgVars, loaderVars, parseVars>>
ExecDone(n) ==
    /\ rpc = "exec"
    /\ rin' = [rin EXCEPT !.results = n]
    /\ IF n = 0 \/ rin.dry_run
       THEN rpc' = "returned" /\ rres' = RunOk
       ELSE rpc' = "report" /\ rres' = rres
    /\ UNCHANGED <<rreqs, rreport, rfile>>
    /\ UNCHANGED <<authVars, loginVars, cfgVars, loaderVars, parseVars>>

\* the top of the `for flamegraph_path in &args.flamegraph` loop after file
\* i - 1, or the final Ok(()) when no file is left
NextFile(i) ==
    IF i > Len(rin.files)
    THEN rpc' = "returned" /\ rres' = RunOk /\ rfile' = rfile
    ELSE rpc' = "file" /\ rres' = rres /\ rfile' = i

\* client.create_report(..).await?
CreateReport(ok, id) ==
    /\ rpc = "report"
    /\ rreqs' = Append(rreqs, Sent(GraphqlRequest(rin.token, "createReport", NoArgs), ok))
    /\ IF ok
       THEN /\ rreport' = Some(id)
            /\ NextFile(1)
       ELSE /\ rreport' = rreport
            /\ rpc' = "returned"
            /\ rres' = RunErr("createReport")
            /\ rfile' = rfile
    /\ UNCHANGED rin
    /\ UNCHANGED <<authVars, loginVars, cfgVars, loaderVars, parseVars>>

\* whether the loop's two checks `continue` on this file
Skipped(file) == ~file.exists \/ file.size > MAX_FILE_SIZE

\* a file that is missing or too large: the warning and `continue`
SkipFile ==
    /\ rpc = "file"
    /\ Skipped(rin.files[rfile])
    /\ NextFile(rfile + 1)
    /\ UNCHANGED <<rin, rreqs, rreport>>
    /\ UNCHANGED <<authVars, loginVars, cfgVars, loaderVars, parseVars>>

\* std::fs::metadata(flamegraph_path)? fails on a file that exists
MetadataFail ==
    /\ rpc = "file"
    /\ rin.files[rfile].exists
    /\ rpc' = "returned"
    /\ rres' = RunErr("Failed to read flamegraph file metadata")
    /\ UNCHANGED <<rin, rreqs, rreport, rfile>>
    /\ UNCHANGED <<authVars, loginVars, cfgVars, loaderVars, parseVars>>

\* client.get_flamegraph_upload_url(..).await?
GetUploadUrl(ok) ==
    /\ rpc = "file"
    /\ ~Skipped(rin.files[rfile])
    /\ rreqs' = Append(rreqs, Sent(GraphqlRequest(rin.token, "createFlamegraphUploadUrl",
                                                 [file |-> rfile]), ok))
    /\ IF ok
       THEN rpc' = "upload" /\ rres' = rres
       ELSE rpc' = "returned" /\ rres' = RunErr("Failed to get flamegraph upload URL")
    /\ UNCHANGED <<rin, rreport, rfile>>
    /\ UNCHANGED <<authVars, loginVars, cfgVars, loaderVars, parseVars>>

\* upload_flamegraph_file: fs::read(file_path)? fails, nothing is sent
UploadReadFail ==
    /\ rpc = "upload"
    /\ rpc' = "returned"
    /\ rres' = RunErr("Failed to upload flamegraph file")
    /\ UNCHANGED <<rin, rreqs, rreport, rfile>>
    /\ UNCHANGED <<authVars, loginVars, cfgVars, loaderVars, parseVars>>

\* client.upload_flamegraph_file(&upload_url.signed_url, path).await?
UploadFile(ok) ==
    /\ rpc = "upload"
    /\ rreqs' = Append(rreqs, Sent(UploadRequest(UploadUrlFor(rfile).signed_url, rfile), ok))
    /\ IF ok
       THEN rpc' = "confirm" /\ rres' = rres
       ELSE rpc' = "returned" /\ rres' = RunErr("Failed to upload flamegraph file")
    /\ UNCHANGED <<rin, rreport, rfile>>
    /\ UNCHANGED <<authVars, loginVars, cfgVars, loaderVars, parseVars>>

\* the arguments of confirm_flamegraph_upload: &report.id,
\* &upload_url.storage_path, file_name, file_size
ConfirmArgs_OtherReport(i) ==
    [file |-> i, reportId |-> CHOOSE id \in ReportIds : id # rreport.val,
     storagePath |-> UploadUrlFor(i).storage_path, fileSize |-> rin.files[i].size]
ConfirmArgs(i) ==
    [file |-> i, reportId |-> rreport.val,
     storagePath |-> UploadUrlFor(i).storage_path, fileSize |-> rin.files[i].size]

\* client.confirm_flamegraph_upload(..).await?
ConfirmUpload(ok) ==
    /\ rpc = "confirm"
    /\ rreqs' = Append(rreqs, Sent(GraphqlRequest(rin.token, "confirmFlamegraphUpload",
                                                 ConfirmArgs(rfile)), ok))
    /\ IF ok
       THEN NextFile(rfile + 1)
       ELSE /\ rpc' = "returned"
            /\ rres' = RunErr("Failed to confirm flamegraph upload")
            /\ rfile' = rfile
    /\ UNCHANGED <<rin, rreport>>
    /\ UNCHANGED <<authVars, loginVars, cfgVars, loaderVars, parseVars>>

\* a project command: Config::load()?, ApiClient::new, and one of
\* list_projects, get_project, create_project
ProjectRequest(env, op, ok) ==
    /\ rpc = "idle"
    /\ LET r == LoadConfig(env, configFile) IN
        IF r.kind = "ok"
        THEN /\ rin' = [NoRun EXCEPT !.cmd = "project", !.env = env,
                                     !.token = r.config.token]
             /\ rreqs' = <<Sent(GraphqlRequest(r.config.token, op, NoArgs), ok)>>
             /\ rres' = IF ok THEN RunOk ELSE RunErr(op)
        ELSE /\ rin' = [NoRun EXCEPT !.cmd = "project", !.env = env]
             /\ rreqs' = <<>>
             /\ rres' = r
    /\ rpc' = "returned"
    /\ rreport' = None
    /\ rfile' = 0
    /\ UNCHANGED <<authVars, loginVars, cfgVars, loaderVars, parseVars>>

RunQuiet ==
    /\ rpc = "idle"
    /\ rin = NoRun
    /\ rreqs = <<>>
    /\ rreport = None
    /\ rfile = 0
    /\ rres = RunRunning

NextRun ==
    \/ \E env \in Envs, dryRun \in BOOLEAN, files \in FileLists :
          RunStart(env, dryRun, files)
    \/ ExecFail
    \/ \E n \in ResultCounts : ExecDone(n)
    \/ \E ok \in BOOLEAN, id \in ReportIds : CreateReport(ok, id)
    \/ SkipFile
    \/ MetadataFail
    \/ \E ok \in BOOLEAN : GetUploadUrl(ok)
    \/ UploadReadFail
    \/ \E ok \in BOOLEAN : UploadFile(ok)
    \/ \E ok \in BOOLEAN : ConfirmUpload(ok)
    \/ \E env \in Envs, op \in ProjectOps, ok \in BOOLEAN : ProjectRequest(env, op, ok)

\* ========================================================================
\* Part 6.  parse_pr_from_github_ref (driftwatch-cli/src/commands/run.rs)
\* ========================================================================

\* i32::MAX / 10 (and, negated, i32::MIN / 10), where the digit loop of
\* i32::from_str checks its multiplication and its addition for overflow
I32_MAX_DIV_10 == 214748364

\* str::parse::<i32>(): an optional '+' or '-', then at least one ASCII digit
\* and nothing else; the value is accumulated digit by digit (upwards for a
\* positive number, downwards for a negative one) with checked_mul and
\* checked_add / checked_sub, and any overflow of i32 is an error.
RECURSIVE AccumulateI32(_, _, _)
AccumulateI32(digits, acc, negative) ==
    IF digits = <<>> THEN Some(acc)
    ELSE LET d == Head(digits) - 48 IN
         IF negative
         THEN IF acc < -I32_MAX_DIV_10 \/ (acc = -I32_MAX_DIV_10 /\ d > 8) THEN None
              ELSE AccumulateI32(Tail(digits), acc * 10 - d, negative)
         ELSE IF acc > I32_MAX_DIV_10 \/ (acc = I32_MAX_DIV_10 /\ d > 7) THEN None
              ELSE AccumulateI32(Tail(digits), acc * 10 + d, negative)
ParseI32(s) ==
    IF s = <<>> THEN None
    ELSE LET signed == s[1] \in {43, 45}
             digits == IF signed THEN Tail(s) ELSE s
         IN  IF digits = <<>> \/ \E i \in 1..Len(digits) : digits[i] \notin 48..57
             THEN None
             ELSE AccumulateI32(digits, 0, s[1] = 45)

\* str::starts_with and str::strip_prefix
StartsWith(s, prefix) ==
    Len(s) >= Len(prefix) /\ SubSeq(s, 1, Len(prefix)) = prefix
StripPrefix(s, prefix) ==
    IF StartsWith(s, prefix) THEN Some(SubSeq(s, Len(prefix) + 1, Len(s))) ELSE None

RefsPull == Bytes(<<"r", "e", "f", "s", "/", "p", "u", "l", "l", "/">>)

parse_pr_from_github_ref_NoFilter(github_ref) ==
    IF StartsWith(github_ref, RefsPull)
    THEN ParseI32(SplitOn(StripPrefix(github_ref, RefsPull).val, Code["/"])[1])
    ELSE None
parse_pr_from_github_ref(github_ref) ==
    IF StartsWith(github_ref, RefsPull)
    THEN LET stripped == StripPrefix(github_ref, RefsPull)
             first == IF stripped.some
                      THEN Some(SplitOn(stripped.val, Code["/"])[1]) ELSE None
             parsed == IF first.some THEN ParseI32(first.val) ELSE None
         IN  IF parsed.some /\ parsed.val > 0 THEN parsed ELSE None
    ELSE None

\* The texts the function is tried on: what comes before the number, the
\* number's text, and what follows it.
GithubRefs ==
    LET RefHeads ==
            {RefsPull,
             <<>>,
             Bytes(<<"p", "u", "l", "l", "/">>),
             Bytes(<<" ">>) \o RefsPull,
             Bytes(<<"r", "e", "f", "s", "/", "p", "u", "l", "l">>),
             Bytes(<<"r", "e", "f", "s", "/", "h", "e", "a", "d", "s", "/">>),
             Bytes(<<"r", "e", "f", "s", "/", "t", "a", "g", "s", "/">>)}
        RefNumbers ==
            {<<>>,
             Bytes(<<"1">>), Bytes(<<"4", "2">>), Bytes(<<"1", "2", "3">>),
             Bytes(<<"9", "9", "9", "9", "9">>),
             Bytes(<<"0">>), Bytes(<<"0", "0">>), Bytes(<<"0", "0", "7">>),
             Bytes(<<"-", "1">>), Bytes(<<"-", "0">>), Bytes(<<"+", "5">>), Bytes(<<"+", "0">>),
             Bytes(<<"-">>), Bytes(<<"+">>), Bytes(<<"+", "-", "1">>),
             Bytes(<<"a", "b", "c">>), Bytes(<<"1", "2", "a">>), Bytes(<<" ", "1", "2">>),
             Bytes(<<"1", "2", " ">>), Bytes(<<"m", "a", "i", "n">>),
             Bytes(<<"2", "1", "4", "7", "4", "8", "3", "6", "4", "7">>),
             Bytes(<<"2", "1", "4", "7", "4", "8", "3", "6", "4", "8">>),
             Bytes(<<"2", "1", "4", "7", "4", "8", "3", "6", "5", "0">>),
             Bytes(<<"0", "2", "1", "4", "7", "4", "8", "3", "6", "4", "7">>),
             Bytes(<<"9", "9", "9", "9", "9", "9", "9", "9", "9", "9">>),
             Bytes(<<"1", "0", "0", "0", "0", "0", "0", "0", "0", "0", "0">>),
             Bytes(<<"-", "2", "1", "4", "7", "4", "8", "3", "6", "4", "8">>),
             Bytes(<<"-", "2", "1", "4", "7", "4", "8", "3", "6", "4", "9">>)}
        RefTails ==
            {<<>>,
             Bytes(<<"/">>),
             Bytes(<<"/", "m", "e", "r", "g", "e">>),
             Bytes(<<"/", "h", "e", "a", "d">>),
             Bytes(<<"/", "7">>)}
    IN  {h \o n \o t : h \in RefHeads, n \in RefNumbers, t \in RefTails}

NotCalled == [called |-> FALSE, result |-> None]

\* parse_pr_from_github_ref(&r) is called on the text
ParsePrCall ==
    /\ ~prNumber.called
    /\ prNumber' = [called |-> TRUE, result |-> parse_pr_from_github_ref(githubRef)]
    /\ UNCHANGED githubRef
    /\ UNCHANGED <<authVars, loginVars, cfgVars, loaderVars, runVars>>

ParseQuiet ==
    /\ githubRef = <<>>
    /\ prNumber = NotCalled

\* ---- specifications ----------------------------------------------------

LoginInit ==
    /\ pc = "idle"
    /\ argToken = None
    /\ argApi = DEFAULT_API_URL
    /\ argGrpc = DEFAULT_GRPC_URL
    /\ cred = None
    /\ outcome = "Idle"
    /\ err = "none"
    /\ configFile \in {NoFile, OldConfig}
    /\ configBefore = configFile
    /\ browser = "none"
    /\ acceptLoop = "none"
    /\ slot = "none"
    /\ chan = EmptyChan
    /\ mutex = 0
    /\ conns = [c \in ConnIds |-> NoConn]
    /\ taker = 0
    /\ elapsed = 0
    /\ effects = <<>>

\* the validator with no call in flight and empty stores
AuthQuiet ==
    /\ sessions = [t \in Tokens |-> [verdict |-> "unknown", user |-> 0]]
    /\ apiKeys = [t \in Tokens |-> [verdict |-> "unknown", user |-> 0]]
    /\ vpc = "idle"
    /\ vtoken = "ak_123"
    /\ vcalls = <<>>
    /\ vresult = NoResult
    /\ vprev = [token |-> "ak_123", calls |-> <<>>, result |-> NoResult]

\* no login command running, no configuration file
LoginQuiet ==
    /\ LoginInit
    /\ configFile = NoFile

Init == LoginInit /\ AuthQuiet /\ CfgQuiet /\ LoaderQuiet /\ RunQuiet /\ ParseQuiet

Next ==
    \/ \E tok \in ExplicitTokens, urls \in UrlArgs :
          LoginStart(Some(tok), urls[1], urls[2])
    \/ \E urls \in BrowserUrlArgs : LoginStart(None, urls[1], urls[2])
    \/ \E opened \in BOOLEAN : BindOk(opened)
    \/ BindFail
    \/ Tick
    \/ AwaitResolve
    \/ ConnectOk
    \/ ConnectFail
    \/ \E kind \in {"rejected", "no_user"} : GetMeFail(kind)
    \/ GetMeOkPersist
    \/ \E damaged \in BOOLEAN : GetMeOkPersistFail(damaged)
    \/ \E c \in ConnIds, req \in Requests : ConnAccept(c, req)
    \/ AcceptPanic
    \/ \E c \in ConnIds : HandleBadRequest(c)
    \/ \E c \in ConnIds : HandleTokenRequest(c)
    \/ \E c \in ConnIds : LockGranted(c)
    \/ \E c \in ConnIds : SendAndRespond(c)

\* The login command with its browser handshake.
Spec == Init /\ [][Next]_vars

\* The login command under the scheduling the runtime gives it: the bind
\* returns, the timer of tokio::time::timeout advances and fires, and the
\* coordinator is polled once its wait can resolve.  Nothing is assumed about
\* the browser, the peers of the listener or the connection handlers.
LoginFairness ==
    /\ WF_vars(BindFail \/ \E opened \in BOOLEAN : BindOk(opened))
    /\ WF_vars(Tick)
    /\ WF_vars(AwaitResolve)
\* One browser login, with callbacks of each kind: with a token, with an empty
\* token, and without one.
LiveRequests == {ReqPlain, ReqEmptyToken, ReqWrongPath}
NextLive ==
    \/ \E urls \in BrowserUrlArgs : LoginStart(None, urls[1], urls[2])
    \/ \E opened \in BOOLEAN : BindOk(opened)
    \/ BindFail
    \/ Tick
    \/ AwaitResolve
    \/ ConnectOk
    \/ ConnectFail
    \/ \E kind \in {"rejected", "no_user"} : GetMeFail(kind)
    \/ GetMeOkPersist
    \/ \E damaged \in BOOLEAN : GetMeOkPersistFail(damaged)
    \/ \E c \in ConnIds, req \in LiveRequests : ConnAccept(c, req)
    \/ AcceptPanic
    \/ \E c \in ConnIds : HandleBadRequest(c)
    \/ \E c \in ConnIds : HandleTokenRequest(c)
    \/ \E c \in ConnIds : LockGranted(c)
    \/ \E c \in ConnIds : SendAndRespond(c)
SpecLive == Init /\ [][NextLive]_vars /\ LoginFairness


\* One browser login whose listener is also sent connections that stay open
\* without a request.
NextSlow ==
    \/ \E urls \in BrowserUrlArgs : LoginStart(None, urls[1], urls[2])
    \/ \E opened \in BOOLEAN : BindOk(opened)
    \/ BindFail
    \/ Tick
    \/ AwaitResolve
    \/ ConnectOk
    \/ ConnectFail
    \/ \E kind \in {"rejected", "no_user"} : GetMeFail(kind)
    \/ GetMeOkPersist
    \/ \E damaged \in BOOLEAN : GetMeOkPersistFail(damaged)
    \/ \E c \in ConnIds, req \in {ReqPlain, ReqWrongPath} : ConnAccept(c, req)
    \/ \E c \in ConnIds : ConnOpen(c)
    \/ AcceptPanic
    \/ \E c \in ConnIds : HandleBadRequest(c)
    \/ \E c \in ConnIds : HandleTokenRequest(c)
    \/ \E c \in ConnIds : LockGranted(c)
    \/ \E c \in ConnIds : SendAndRespond(c)
SpecSlow == Init /\ [][NextSlow]_vars


InitAuth == AuthInit /\ LoginQuiet /\ CfgQuiet /\ LoaderQuiet /\ RunQuiet /\ ParseQuiet

\* The credential validator under concurrent changes of its stores.
SpecAuth == InitAuth /\ [][AuthNext]_vars

InitConfig == LoginInit /\ AuthQuiet /\ CfgQuiet /\ LoaderQuiet /\ RunQuiet /\ ParseQuiet

NextConfig ==
    \/ \E tok \in ExplicitTokens, urls \in UrlArgs :
          LoginStart(Some(tok), urls[1], urls[2])
    \/ ConnectOk
    \/ ConnectFail
    \/ \E kind \in {"rejected", "no_user"} : GetMeFail(kind)
    \/ GetMeOkPersist
    \/ \E damaged \in BOOLEAN : GetMeOkPersistFail(damaged)
    \/ LoginExit
    \/ \E env \in Envs : LoadCommand(env)
    \/ Logout
    \/ LogoutFail

\* Sequences of login --token, logout and configuration-loading commands.
SpecConfig == InitConfig /\ [][NextConfig]_vars

InitLoader == LoaderInit /\ AuthQuiet /\ LoginQuiet /\ CfgQuiet /\ RunQuiet /\ ParseQuiet

\* The loaders serving the load calls of successive requests.
SpecLoader == InitLoader /\ [][LoaderNext]_vars

\* One command that uses the API client: run, or a project command.
SpecRun == Init /\ [][NextRun]_vars

InitParse ==
    /\ LoginInit /\ AuthQuiet /\ CfgQuiet /\ LoaderQuiet /\ RunQuiet
    /\ githubRef \in GithubRefs
    /\ prNumber = NotCalled

\* parse_pr_from_github_ref applied to each text.
SpecParse == InitParse /\ [][ParsePrCall]_vars


\* ========================================================================
\* Properties
\* ========================================================================

Unauthenticated == [kind |-> "err", msg |-> "Invalid token"]

\* C1: validate_token asks the session store first; when the session store
\* accepts the string the result is that session's user with the session
\* attached and no API key, and the API-key store is not asked at all in that
\* call, also when the string is a valid API key too.
C1_SessionFirst ==
    /\ vcalls # <<>> => vcalls[1].op = "validate_session"
    /\ \A i \in 1..Len(vcalls) :
          vcalls[i].op = "validate_api_key" =>
              /\ i = 2
              /\ ~vcalls[1].res.ok
    /\ (vpc = "done" /\ vcalls[1].res.ok) =>
          /\ Len(vcalls) = 1
          /\ vresult = [kind |-> "ok",
                        user |-> vcalls[1].res.user,
                        session |-> Some(vcalls[1].res.record),
                        api_key |-> None]
          /\ vcalls[1].res.record.kind = "session"
          /\ vcalls[1].res.record.token = vtoken

C1_Witness ==
    /\ vpc = "done"
    /\ vcalls[1].res.ok
    /\ apiKeys[vtoken].verdict = "valid"
    /\ apiKeys[vtoken].user # vresult.user

\* C2: every rejection is the same value, AuthError("Invalid token"), whatever
\* the two stores' reasons were: a rejected call and the rejected call before
\* it return equal values also when their reasons differ.
C2_UniformFailure ==
    (vpc = "done" /\ vresult.kind = "err") =>
        /\ vresult = Unauthenticated
        /\ vprev.result.kind = "err" => vprev.result = vresult

C2_Witness ==
    /\ vpc = "done"
    /\ vresult.kind = "err"
    /\ vprev.result.kind = "err"
    /\ vcalls[1].res.reason = "expired"
    /\ vcalls[2].res.reason = "revoked"
    /\ vprev.calls[1].res.reason \in {"unknown", "malformed"}
    /\ vprev.calls[2].res.reason \in {"unknown", "malformed"}

\* C3: validate_token always returns, and what it returns is either an identity
\* with exactly one of session / api_key populated or the Unauthenticated
\* failure; nothing else.
C3_Total ==
    /\ vpc \in {"idle", "session", "apikey", "done"}
    /\ vpc = "session" => ENABLED ValidateSessionStep
    /\ vpc = "apikey" => ENABLED ValidateApiKeyStep
    /\ vpc = "done" =>
          \/ vresult = Unauthenticated
          \/ /\ vresult.kind = "ok"
             /\ vresult.user \in Users
             /\ vresult.session.some # vresult.api_key.some
    /\ vpc \in {"session", "apikey"} => vresult = NoResult

C3_Witness ==
    /\ vpc = "done"
    /\ vresult.kind = "ok"
    /\ vresult.session.some
    /\ vprev.result.kind = "ok"
    /\ vprev.result.api_key.some

\* C4: when the session store rejects the string and the API-key store accepts
\* it as a key of user U, the result is user U with no session and that key.
C4_ApiKeyPath ==
    (vpc = "done" /\ ~vcalls[1].res.ok) =>
        /\ Len(vcalls) = 2
        /\ vcalls[2].op = "validate_api_key"
        /\ vcalls[2].res.ok =>
              /\ vresult = [kind |-> "ok",
                            user |-> vcalls[2].res.user,
                            session |-> None,
                            api_key |-> Some(vcalls[2].res.record)]
              /\ vcalls[2].res.record.kind = "api_key"
              /\ vcalls[2].res.record.key = vtoken
              /\ vcalls[2].res.record.user_id = vresult.user

C4_Witness ==
    /\ vpc = "done"
    /\ vtoken = "ak_123"
    /\ vcalls[1].res.ok = FALSE
    /\ vcalls[1].res.reason = "expired"
    /\ Len(vcalls) = 2
    /\ vcalls[2].res.ok

\* ---- the handshake -----------------------------------------------------

\* Requests to /callback with a token=<value> pair, and the others.
TokenRequests == {ReqPlain, ReqEncoded, ReqEmptyToken, ReqBadUtf8}
\* (a bare `token` with no '=' carries no value: it is not a token parameter)
BadRequests == {ReqWrongPath, ReqNoQuery, ReqNoTokenParam}

\* The credential each well-formed delivery carries: its token parameter,
\* percent-decoded ("ab", and "A=b" sent as %41%3Db).
ExpectedCredential(req) ==
    IF req = ReqPlain THEN Bytes(<<"a", "b">>) ELSE Bytes(<<"A", "=", "b">>)
WellFormedDeliveries == {ReqPlain, ReqEncoded}

HandshakeOver == outcome \in {"Delivered", "TimedOut", "Failed"}

\* C5: whatever the number and the interleaving of callbacks with a token, only
\* the first handler to take from the slot gets the sender, at most one value
\* enters the channel, and the credential browser_login returns is the one of
\* that first handler's request.
C5_SingleUseSlot ==
    /\ \A c \in ConnIds : conns[c].sender => c = taker
    /\ \A c \in ConnIds : conns[c].st \in {"holding"} <=> mutex = c
    /\ taker # 0 => slot = "taken"
    /\ chan.st = "value" =>
          /\ taker # 0
          /\ conns[taker].st = "done"
          /\ chan.val = CallbackToken(conns[taker].req).val
    /\ (chan.st = "value" /\ pc # "await") => outcome = "Delivered"
    /\ outcome = "Delivered" =>
          /\ chan.st = "value"
          /\ cred = Some(chan.val)
    /\ (~argToken.some /\ cred.some) => outcome = "Delivered"

C5_Witness ==
    /\ outcome = "Delivered"
    /\ taker = 2
    /\ conns[1].st = "done"
    /\ conns[1].resp.status = 200
    /\ CallbackToken(conns[1].req).val # cred.val

\* C6: a request to another path, or to /callback without a token parameter,
\* gets 400 and its handler never touches the slot (never locks it, never
\* takes from it); a request to /callback with a token parameter gets 200 with
\* content-type text/html.
C6_Responses ==
    \A c \in ConnIds :
        /\ conns[c].req \in BadRequests =>
              /\ conns[c].st \in {"accepted", "done"}
              /\ conns[c].st = "done" => conns[c].resp = [status |-> 400, ctype |-> ""]
              /\ mutex # c
              /\ taker # c
              /\ ~conns[c].sender
        /\ conns[c].req \in TokenRequests =>
              /\ conns[c].st = "done" =>
                    conns[c].resp = [status |-> 200, ctype |-> "text/html"]
        /\ conns[c].st # "done" => conns[c].resp.status = 0
        /\ conns[c].st # "none" => conns[c].req \in BadRequests \cup TokenRequests

C6_Witness ==
    /\ conns[1].st = "done"
    /\ conns[1].req = ReqWrongPath
    /\ conns[2].st = "done"
    /\ conns[2].req = ReqPlain
    /\ outcome = "Delivered"
    /\ cred = Some(ExpectedCredential(ReqPlain))

\* C7: a well-formed credential that reached the channel before the 300 s
\* deadline makes the handshake end in Delivered, and browser_login returns
\* exactly the percent-decoded value of that request's token parameter.
C7_DeliveredExact ==
    (chan.st = "value" /\ conns[taker].req \in WellFormedDeliveries) =>
        /\ chan.val = ExpectedCredential(conns[taker].req)
        /\ (chan.at < 300 /\ pc # "await") =>
              /\ outcome = "Delivered"
              /\ cred = Some(ExpectedCredential(conns[taker].req))
              /\ err \notin {"timeout", "recv", "bind"}

C7_Witness ==
    /\ outcome = "Delivered"
    /\ conns[taker].req = ReqEncoded
    /\ chan.at < 300
    /\ elapsed >= 300
    /\ cred = Some(Bytes(<<"A", "=", "b">>))

C9_ListenerStopped ==
    HandshakeOver => acceptLoop # "running"

\* C10: a login that ends in bind failure, timeout, closed channel, connection
\* failure, rejected get_me or a response without user leaves the configuration
\* file as it was; a file is only ever written with the verified credential.
C10_NoTraceOnFailure ==
    /\ err \in {"bind", "timeout", "recv", "connect", "rejected", "no_user"} =>
          configFile = configBefore
    /\ pc # "returned" => configFile = configBefore
    /\ configFile # configBefore =>
          \/ err = "io" /\ configFile = TruncatedFile
          \/ err = "none" /\ configFile = ConfigOf(cred.val, argApi, argGrpc)

C10_Witness ==
    /\ pc = "returned"
    /\ err = "rejected"
    /\ outcome = "Delivered"
    /\ configBefore = OldConfig
    /\ configFile = OldConfig
    /\ cred = Some(Bytes(<<"a", "b">>))

\* C11: login with an explicit --token never enters the browser handshake:
\* nothing is bound, no browser is opened, no timer runs and no callback is
\* served; the credential in hand is the given token, the command is at the
\* connection, at get_me or has returned, and the file is written only by the
\* return after a successful get_me.
C11_ExplicitTokenSkipsHandshake ==
    argToken.some =>
        /\ pc \in {"connect", "getme", "returned"}
        /\ cred = argToken
        /\ outcome = "Idle"
        /\ browser = "none"
        /\ acceptLoop = "none"
        /\ slot = "none"
        /\ chan = EmptyChan
        /\ elapsed = 0
        /\ effects = <<>>
        /\ \A c \in ConnIds : conns[c] = NoConn
        /\ ~ENABLED BindFail
        /\ ~ENABLED Tick
        /\ err \notin {"bind", "timeout", "recv"}
        /\ configFile # configBefore => pc = "returned" /\ err \in {"none", "io"}
        /\ (pc = "returned" /\ err = "none") =>
              configFile = ConfigOf(argToken.val, argApi, argGrpc)

C11_Witness ==
    /\ argToken.some
    /\ pc = "returned"
    /\ err = "none"
    /\ configBefore = OldConfig
    /\ configFile = ConfigOf(argToken.val, argApi, argGrpc)

\* C12: a failed bind ends browser_login at once, in Failed, with no browser
\* opened, no listener and no wait; when the channel is closed without a value
\* the wait can end whatever the time waited, and whenever the wait ends on a
\* closed channel it ends in Failed with the 'failed to receive' error and no
\* credential.
C12_NoHang ==
    /\ [](err = "bind" =>
            /\ pc = "returned"
            /\ outcome = "Failed"
            /\ browser = "none"
            /\ acceptLoop = "none"
            /\ slot = "none"
            /\ elapsed = 0
            /\ effects = <<>>
            /\ cred = None)
    /\ []((pc = "await" /\ chan.st = "closed") => ENABLED AwaitResolve)
    /\ [](err = "recv" =>
            /\ pc = "returned"
            /\ outcome = "Failed"
            /\ chan.st = "closed"
            /\ cred = None)
    /\ [][(pc = "await" /\ chan.st = "closed" /\ pc' # "await") =>
            (pc' = "returned" /\ outcome' = "Failed" /\ err' = "recv")]_vars

C12_Witness ==
    /\ err = "recv"
    /\ outcome = "Failed"
    /\ acceptLoop = "panicked"
    /\ elapsed < 300

\* the callbacks the claim calls malformed: wrong path, no query, no token
\* key, and a token value that does not decode
MalformedCallbacks == BadRequests \cup {ReqBadUtf8}

\* C13 (as claimed): every malformed callback is answered 400 and leaves the
\* slot unconsumed, and the handshake returns the credential of the first
\* later valid delivery.
C13_MalformedNeverEnds ==
    /\ \A c \in ConnIds :
          conns[c].req \in MalformedCallbacks =>
              /\ conns[c].st = "done" => conns[c].resp.status = 400
              /\ taker # c
              /\ ~conns[c].sender
    /\ outcome = "Delivered" => conns[taker].req \notin MalformedCallbacks

\* C14: when open::that fails the handshake is still in AwaitingBrowser (or
\* past it) with the slot created and the accept task spawned; right after the
\* failure the listener accepts a connection; the URL was printed before the
\* attempt to open the browser; no error of login comes from the failure; a
\* value delivered before the deadline is the credential in hand, get_me can
\* succeed on it, and login then returns Ok with the file written.
C14_BrowserOpenNonFatal ==
    /\ effects # <<>> =>
          /\ effects[1] = "print_url"
          /\ effects[2] = "open_browser"
          /\ browser # "none"
    /\ browser = "failed" =>
          /\ outcome \in {"AwaitingBrowser", "Delivered", "TimedOut", "Failed"}
          /\ pc # "bind"
          /\ acceptLoop # "none"
          /\ slot # "none"
          /\ effects[1] = "print_url"
          /\ pc = "await" => outcome = "AwaitingBrowser"
          /\ outcome = "Failed" => chan.st = "closed"
          /\ outcome = "TimedOut" => elapsed >= 300
          /\ (pc = "await" /\ acceptLoop = "running" /\ conns[1].st = "none") =>
                ENABLED ConnAccept(1, ReqPlain)
          /\ (chan.st = "value" /\ chan.at < 300 /\ pc # "await") =>
                outcome = "Delivered" /\ cred = Some(chan.val)
          /\ pc = "getme" => ENABLED GetMeOkPersist
          /\ (pc = "returned" /\ outcome = "Delivered" /\ err = "none") =>
                configFile = ConfigOf(cred.val, argApi, argGrpc)

C14_Witness ==
    /\ browser = "failed"
    /\ effects[3] = "eprint_open_failed"
    /\ outcome = "Delivered"
    /\ pc = "returned"
    /\ err = "none"
    /\ configFile = ConfigOf(ExpectedCredential(ReqPlain), argApi, argGrpc)

\* C15: a login that returned Ok has left the file holding exactly its
\* credential and its two URLs, whatever the file held before; a logout that
\* returned Ok has left no file; a logout that found no file returned Ok and
\* there is still no file; a load right after a successful logout, with no
\* DRIFTWATCH_TOKEN in the environment, fails as not authenticated.
C15_ConfigLifecycle ==
    /\ (pc = "returned" /\ err = "none") =>
          /\ cred = argToken
          /\ configFile = ConfigOf(cred.val, argApi, argGrpc)
    /\ (pc = "idle" /\ last.cmd = "login" /\ last.result.kind = "ok") =>
          /\ configFile.kind = "file"
          /\ configFile.token \in ExplicitTokens
          /\ <<configFile.api_url, configFile.grpc_url>> \in UrlArgs
    /\ (pc = "idle" /\ last.cmd = "logout") =>
          /\ last.result.kind = "ok" => configFile = NoFile
          /\ last.before = NoFile =>
                /\ last.result.kind = "ok"
                /\ configFile = last.before
    /\ (last.cmd = "load" /\ last.prev.cmd = "logout" /\ last.prev.ok
          /\ ~last.env.token.some) =>
          /\ last.before = NoFile
          /\ last.result = NotAuthenticated

C15_Witness ==
    /\ last.cmd = "load"
    /\ ~last.env.token.some
    /\ last.prev.cmd = "logout"
    /\ last.prev.ok
    /\ last.prev.before = ConfigOf(Bytes(<<"c","l","i">>), "http://localhost:4000",
                                   "http://localhost:50051")
    /\ last.result = NotAuthenticated
    /\ configFile = NoFile

\* C16 (as claimed): Config::load leaves the file as it was; the loaded
\* api_url is the environment's value when DRIFTWATCH_API_URL is set, and the
\* value in the file when it is unset.
C16_ReadTimeMerge ==
    (pc = "idle" /\ last.cmd = "load") =>
        /\ configFile = last.before
        /\ last.result.kind = "ok" =>
              IF last.env.api_url.some
              THEN last.result.config.api_url = last.env.api_url.val
              ELSE last.before.kind = "file" =>
                      last.result.config.api_url = last.before.api_url

\* what the two stores answer for a bearer string in the current state
StoreAnswer(op, t) ==
    IF op = "validate_session" THEN ValidateSession(t) ELSE ValidateApiKey(t)
AnswersStand(calls, t) ==
    \A i \in 1..Len(calls) : calls[i].res = StoreAnswer(calls[i].op, t)

Backed(kind) == db[kind]

\* C18: a loader load that succeeded returned a mapping whose keys are
\* exactly the keys it was given that have a row of its kind, each mapped to
\* the entity of that kind with that id; keys without a row and keys it was
\* not given are not in the mapping.
C18_ExactKeySet ==
    (lastLoad.kind # "none" /\ lastLoad.passed # <<>> /\ lastLoad.result.kind = "ok") =>
        LET map == lastLoad.result.map
            given == Range(lastLoad.passed)
        IN  /\ DOMAIN map = given \cap Backed(lastLoad.kind)
            /\ \A k \in DOMAIN map :
                  /\ map[k].id = k
                  /\ map[k].typename = lastLoad.kind
            /\ \A k \in given \ Backed(lastLoad.kind) : k \notin DOMAIN map
            /\ \A k \in Keys \ given : k \notin DOMAIN map

C18_Witness ==
    /\ lastLoad.kind = "Branch"
    /\ lastLoad.result.kind = "ok"
    /\ Range(lastLoad.passed) = {"A", "C", "D"}
    /\ "C" \notin Backed("Branch")
    /\ DOMAIN lastLoad.result.map = {"A", "D"}

\* C19: a loader load whose bulk read failed returned an error, not a mapping
\* (neither partial nor empty), issued that one read only, and the failed keys
\* do not count as fetched.
C19_FailsAsAWhole ==
    /\ lastLoad.result.kind \in {"none", "ok", "err"}
    /\ lastLoad.result.kind = "err" =>
          /\ lastLoad.result = DbErr
          /\ Len(lastLoad.reads) = 1
          /\ lastLoad.reads[1] = [kind |-> lastLoad.kind, keys |-> lastLoad.passed]
          /\ fetched[lastLoad.kind] = lastLoad.before
    /\ lastLoad.result.kind = "ok" =>
          Range(lastLoad.passed) \subseteq fetched[lastLoad.kind]
    /\ (lastLoad.kind # "none" /\ lastLoad.passed # <<>>
          /\ Range(lastLoad.passed) \cap Backed(lastLoad.kind) # {}) =>
          \/ lastLoad.result = DbErr
          \/ lastLoad.result.kind = "ok" /\ DOMAIN lastLoad.result.map # {}

C19_Witness ==
    /\ lastLoad.kind = "Branch"
    /\ lastLoad.result = DbErr
    /\ Range(lastLoad.passed) = {"A", "B"}
    /\ lastLoad.before = {"C"}
    /\ fetched["Branch"] = {"C"}

GraphqlOps ==
    ProjectOps \cup {"createReport", "createFlamegraphUploadUrl", "confirmFlamegraphUpload"}
BearerOf(token) == Some([scheme |-> "Bearer", credential |-> token])

\* C21 (as claimed): every request of an API operation, the flamegraph file
\* upload included, carries 'Authorization: Bearer <stored credential>'.
C21_EveryRequestBearer ==
    \A i \in 1..Len(rreqs) : rreqs[i].req.auth = BearerOf(rin.token)

\* C21 (amended): every request sent through ApiClient::graphql (list, get
\* and create project, create report, flamegraph upload URL, flamegraph
\* confirmation) carries 'Authorization: Bearer <credential>' with the
\* credential Config::load returned; the PUT of the flamegraph file to the
\* signed URL carries no Authorization header.
C21_GraphqlBearer ==
    \A i \in 1..Len(rreqs) :
        LET r == rreqs[i].req
        IN  /\ r.op \in GraphqlOps \cup {"upload"}
            /\ r.op \in GraphqlOps =>
                  /\ r.method = "POST"
                  /\ r.target = "graphql"
                  /\ r.auth = BearerOf(rin.token)
                  /\ LoadConfig(rin.env, configFile).kind = "ok"
                  /\ r.auth.val.credential = LoadConfig(rin.env, configFile).config.token
            /\ r.op = "upload" =>
                  /\ r.method = "PUT"
                  /\ r.target = "signed-url"
                  /\ r.auth = None

C21_Witness ==
    /\ Len(rreqs) = 4
    /\ rreqs[1].req.op = "createReport"
    /\ rreqs[3].req.op = "upload"
    /\ rreqs[3].req.auth = None
    /\ rreqs[4].req.op = "confirmFlamegraphUpload"
    /\ rreqs[4].req.auth = BearerOf(Bytes(<<"o", "l", "d">>))

\* the command has got past the benchmark command: its output was parsed
Parsed == rin.cmd = "run" /\ rpc # "exec" /\ rres \notin {NotAuthenticated, InvalidConfig,
                                                            RunErr("Failed to execute benchmark command")}

\* C29: when the benchmark output yields no parsed results, or --dry-run is
\* given, the run command sends no request at all (no create-report request,
\* no flamegraph request), does not go on to the submission steps, and
\* returns Ok.
C29_NothingToSubmit ==
    (Parsed /\ (rin.results = 0 \/ rin.dry_run)) =>
        /\ rreqs = <<>>
        /\ rreport = None
        /\ rpc = "returned"
        /\ rres = RunOk

C29_Witness ==
    /\ Parsed
    /\ rin.dry_run
    /\ rin.results = 3
    /\ Len(rin.files) = 2
    /\ ~Skipped(rin.files[1])
    /\ rpc = "returned"
    /\ rres = RunOk
    /\ rreqs = <<>>

FlamegraphOps == {"createFlamegraphUploadUrl", "upload", "confirmFlamegraphUpload"}
\* positions of the request log that hold a request about flamegraph file i
RequestsFor(i) ==
    {k \in 1..Len(rreqs) : rreqs[k].req.op \in FlamegraphOps /\ rreqs[k].req.args.file = i}
\* the operations sent for flamegraph file i, in the order they were sent
OpsFor(i) ==
    LET ks == RequestsFor(i)
        nth[n \in 0..Cardinality(ks)] ==
            IF n = 0 THEN <<>>
            ELSE LET k == CHOOSE k \in ks : Cardinality({j \in ks : j < k}) = n - 1
                 IN  Append(nth[n - 1], rreqs[k].req.op)
    IN  nth[Cardinality(ks)]
IsPrefix(s, t) == Len(s) <= Len(t) /\ SubSeq(t, 1, Len(s)) = s
FileSteps == <<"createFlamegraphUploadUrl", "upload", "confirmFlamegraphUpload">>

\* C30: in the run command no flamegraph request is sent before createReport
\* has succeeded; for each file the requests are get-upload-URL, upload,
\* confirm in that order, each sent only after the one before it succeeded
\* and after every request of the earlier files; the confirmation names the
\* id of the report that was created and the file's size; a file that is
\* missing or larger than 10 MiB gets no request and the files after it are
\* still processed; after a failed request nothing more is sent, the command
\* returns an error and the created report is left as it is.
C30_FlamegraphOrdering ==
    rin.cmd = "run" =>
        /\ \A k \in 1..Len(rreqs) :
              LET r == rreqs[k].req IN
              /\ (k = 1) = (r.op = "createReport")
              /\ k > 1 => /\ r.op \in FlamegraphOps
                          /\ rreqs[k - 1].ok
                          /\ rreport # None
                          /\ r.args.file \in 1..Len(rin.files)
                          /\ ~Skipped(rin.files[r.args.file])
                          /\ rreqs[k - 1].req.args.file <= r.args.file
              /\ r.op = "confirmFlamegraphUpload" =>
                          /\ rreqs[k - 1].req.op = "upload"
                          /\ rreqs[k - 1].req.args.file = r.args.file
                          /\ r.args.reportId = rreport.val
                          /\ r.args.fileSize = rin.files[r.args.file].size
              /\ (~rreqs[k].ok) => /\ k = Len(rreqs)
                                   /\ rpc = "returned"
                                   /\ rres.kind = "err"
        /\ (rreport # None) = (Len(rreqs) >= 1 /\ rreqs[1].ok)
        /\ \A i \in 1..Len(rin.files) :
              /\ IsPrefix(OpsFor(i), FileSteps)
              /\ Skipped(rin.files[i]) => RequestsFor(i) = {}
              /\ (rpc = "returned" /\ rres = RunOk /\ rreport # None /\ ~Skipped(rin.files[i]))
                    => OpsFor(i) = FileSteps

\* a run whose first file is missing and whose second is exactly 10 MiB: the
\* first is skipped, the second is uploaded and confirmed
C30_Witness ==
    /\ rin.cmd = "run"
    /\ Len(rin.files) = 2
    /\ ~rin.files[1].exists
    /\ rin.files[2].size = MAX_FILE_SIZE
    /\ rpc = "returned"
    /\ rres = RunOk
    /\ Len(rreqs) = 4
    /\ OpsFor(2) = FileSteps
    /\ rreqs[4].req.args.reportId = rreport.val

\* C28: when DRIFTWATCH_TOKEN is set, Config::load succeeds with that
\* credential whatever the configuration file is (absent, unparsable or
\* valid): its result is the one it gives with no file at all, and the
\* api_url it returns is DRIFTWATCH_API_URL's value or else the built-in
\* default, never the file's.  Nothing is written to the file.
C28_EnvTokenBypassesFile ==
    (pc = "idle" /\ last.cmd = "load" /\ last.env.token.some) =>
        /\ last.result.kind = "ok"
        /\ last.result.config.token = last.env.token.val
        /\ last.result.config.api_url =
              (IF last.env.api_url.some THEN last.env.api_url.val ELSE DEFAULT_API_URL)
        /\ last.result = LoadConfig(last.env, NoFile)
        /\ last.result = LoadConfig(last.env, TruncatedFile)
        /\ configFile = last.before

\* the token is set, the file is unparsable
C28_Witness ==
    /\ pc = "idle"
    /\ last.cmd = "load"
    /\ last.env = [token |-> Some(Bytes(<<"a", "k">>)), api_url |-> None]
    /\ last.before = TruncatedFile
    /\ last.result.kind = "ok"
    /\ last.result.config.api_url = DEFAULT_API_URL

\* C23 (as claimed): once browser_login has stopped the listener with
\* server_handle.abort(), no task it started is left: the accept loop is not
\* running and no connection handler is still on its way to an answer.
C23_StopTearsDownAll ==
    acceptLoop = "aborted" =>
        \A c \in ConnIds : conns[c].st \in {"none", "done"}

\* handlers whose take() came after the slot had been emptied
LateCallbacks ==
    {c \in ConnIds : /\ c # taker
                     /\ conns[c].st \in {"holding", "done"}
                     /\ CallbackToken(conns[c].req).some}

\* C24: a callback with a token that reaches the slot after it was consumed
\* gets nothing from take(), is answered 200 with the HTML page like the first
\* one, and its token goes nowhere: a value in the channel is never replaced
\* or followed by another, the credential browser_login returned never
\* changes, and both are the first taker's.  The response of every handled
\* request is a function of the request alone.
C24_LateCallbacksDiscarded ==
    /\ [](\A c \in LateCallbacks :
            /\ taker # 0
            /\ slot = "taken"
            /\ ~conns[c].sender
            /\ conns[c].st = "done" => conns[c].resp = Response200
            /\ chan.st = "value" => chan.val = CallbackToken(conns[taker].req).val
            /\ (outcome = "Delivered") =>
                  cred = Some(CallbackToken(conns[taker].req).val))
    /\ [](\A c \in ConnIds :
            conns[c].st = "done" =>
                conns[c].resp = (IF CallbackToken(conns[c].req).some
                                 THEN Response200 ELSE Response400))
    /\ [][chan.st = "value" => chan' = chan]_vars
    /\ [][(outcome = "Delivered" /\ pc' # "idle") => cred' = cred]_vars

\* the second connection's token differs from the first's, arrives late, is
\* answered 200, and the first one's token is the credential
C24_Witness ==
    /\ outcome = "Delivered"
    /\ taker = 1
    /\ conns[1].req = ReqPlain
    /\ 2 \in LateCallbacks
    /\ conns[2].req = ReqEncoded
    /\ conns[2].st = "done"
    /\ conns[2].resp = Response200
    /\ cred = Some(ExpectedCredential(ReqPlain))

\* callbacks whose token parameter is empty or does not decode
EmptyTokenCallbacks == {ReqEmptyToken, ReqBadUtf8}

\* C27: a request to /callback whose token parameter is empty, or whose value
\* does not percent-decode to UTF-8, carries the token "": its handler takes
\* the sender out of the slot when it is the first, it is answered 200, the
\* empty string is what enters the channel, the handshake resolves to
\* Delivered with "" as the credential, and no other handler gets the sender,
\* so a later callback with a real credential is discarded.
C27_EmptyTokenDelivers ==
    /\ \A r \in EmptyTokenCallbacks : CallbackToken(r) = Some(<<>>)
    /\ \A c \in ConnIds :
          (conns[c].st # "none" /\ conns[c].req \in EmptyTokenCallbacks) =>
              /\ conns[c].st = "done" => conns[c].resp = Response200
              /\ (conns[c].st = "accepted" /\ mutex = 0 /\ slot = "sender") =>
                    ENABLED (HandleTokenRequest(c) /\ slot' = "taken" /\ taker' = c)
    /\ (taker # 0 /\ conns[taker].req \in EmptyTokenCallbacks) =>
          /\ slot = "taken"
          /\ \A c \in ConnIds \ {taker} : ~conns[c].sender
          /\ chan.st = "value" => chan.val = <<>>
          /\ (chan.st = "value" /\ pc # "await") =>
                /\ outcome = "Delivered"
                /\ cred = Some(<<>>)

C27_Witness ==
    /\ outcome = "Delivered"
    /\ cred = Some(<<>>)
    /\ taker = 1
    /\ conns[1].req = ReqBadUtf8
    /\ conns[2].req = ReqPlain
    /\ conns[2].st = "done"
    /\ conns[2].resp = Response200

\* C26: every handshake attempt terminates in exactly one outcome.  Once
\* browser_login has started (Idle, about to bind) it eventually returns, in
\* Delivered, TimedOut or Failed, whatever callbacks arrive or do not arrive;
\* a wait is never left pending once the deadline has passed; the outcome,
\* once reached, never changes; and Delivered goes with a credential, TimedOut
\* with the timeout error and Failed with the bind or receive error, each
\* excluding the others.
C26_TerminatesInOneOutcome ==
    /\ (pc = "bind" /\ outcome = "Idle") ~> (HandshakeOver /\ pc # "await")
    /\ (pc = "await") ~> (HandshakeOver /\ pc # "await")
    /\ [](pc \in {"bind", "await"} <=> (pc # "idle" /\ ~HandshakeOver))
    /\ [](HandshakeOver =>
            /\ (outcome = "Delivered") = (cred.some /\ err \notin {"bind", "timeout", "recv"})
            /\ (outcome = "TimedOut") = (err = "timeout")
            /\ (outcome = "Failed") = (err \in {"bind", "recv"}))
    /\ [][HandshakeOver => outcome' = outcome]_vars

\* a timeout after callbacks that carried no token, and with a connection
\* still not handled
C26_Witness ==
    /\ outcome = "TimedOut"
    /\ pc = "returned"
    /\ elapsed >= TimeoutSecs
    /\ conns[1].st = "done"
    /\ conns[1].resp = Response400
    /\ conns[2].st = "accepted"

\* connections that are open and never send a complete request
Hung == {c \in ConnIds : conns[c].st = "open"}
\* the next connection the listener would accept
FreeConn == {c \in ConnIds : conns[c].st = "none" /\ \A d \in ConnIds : d < c => conns[d].st # "none"}

\* C25: connections that stay open without a request block nothing.  While
\* the accept loop runs, a further connection with a valid callback can be
\* accepted whatever the number of hung connections; its handler can always
\* go on to the lock, gets it when it is free, takes the sender when the slot
\* still has it and puts its credential in the channel while the coordinator
\* waits.  A hung connection never holds the lock, and whoever holds the lock
\* is past every wait on a connection: it can always send, answer and release.
C25_HungConnectionDoesNotBlock ==
    /\ \A c \in FreeConn :
          (Running /\ acceptLoop = "running") => ENABLED ConnAccept(c, ReqPlain)
    /\ \A c \in ConnIds :
          /\ (Running /\ conns[c].st = "accepted" /\ CallbackToken(conns[c].req).some) =>
                /\ ENABLED HandleTokenRequest(c)
                /\ (mutex = 0 /\ slot = "sender") =>
                      ENABLED (HandleTokenRequest(c) /\ taker' = c /\ slot' = "taken")
          /\ (Running /\ conns[c].st = "wantlock" /\ mutex = 0) => ENABLED LockGranted(c)
          /\ (conns[c].st = "holding" /\ conns[c].sender /\ RxAlive) =>
                ENABLED (SendAndRespond(c)
                           /\ chan'.st = "value"
                           /\ chan'.val = CallbackToken(conns[c].req).val)
    /\ mutex \notin Hung
    /\ mutex # 0 =>
          /\ conns[mutex].st = "holding"
          /\ Running
          /\ ENABLED (SendAndRespond(mutex) /\ mutex' = 0)
    /\ \A c \in Hung : /\ taker # c
                       /\ ~conns[c].sender
                       /\ conns[c].resp.status = 0

\* the first connection hangs; the second delivers
C25_Witness ==
    /\ Hung = {1}
    /\ taker = 2
    /\ conns[2].req = ReqPlain
    /\ conns[2].st = "done"
    /\ conns[2].resp = Response200
    /\ outcome = "Delivered"
    /\ cred = Some(ExpectedCredential(ReqPlain))

\* the text between the prefix "refs/pull/" and the next '/' (or the end)
PrSegment(s) ==
    LET rest == SubSeq(s, Len(RefsPull) + 1, Len(s))
        stops == {k \in 1..Len(rest) : rest[k] = 47}
        end == IF stops = {} THEN Len(rest)
               ELSE (CHOOSE k \in stops : \A j \in stops : k <= j) - 1
    IN  SubSeq(rest, 1, end)
\* a decimal text without its leading zeros
RECURSIVE Significant(_)
Significant(ds) == IF ds # <<>> /\ Head(ds) = 48 THEN Significant(Tail(ds)) ELSE ds
RECURSIVE Pow10(_)
Pow10(k) == IF k = 0 THEN 1 ELSE 10 * Pow10(k - 1)
RECURSIVE DecimalValue(_)
DecimalValue(ds) ==
    IF ds = <<>> THEN 0
    ELSE (Head(ds) - 48) * Pow10(Len(ds) - 1) + DecimalValue(Tail(ds))
I32MaxText == Bytes(<<"2", "1", "4", "7", "4", "8", "3", "6", "4", "7">>)
\* ds, as long as I32MaxText, is not above it
NotAboveI32Max(ds) ==
    \/ ds = I32MaxText
    \/ \E k \in 1..Len(ds) :
          /\ ds[k] < I32MaxText[k]
          /\ \A j \in 1..(k - 1) : ds[j] = I32MaxText[j]
\* the texts that are a 32-bit signed integer above zero: digits, with an
\* optional '+' before them, not all zero, and at most 2147483647
PositiveI32Text(t) ==
    LET ds == IF t # <<>> /\ t[1] = 43 THEN Tail(t) ELSE t
        sig == Significant(ds)
    IN  /\ ds # <<>>
        /\ \A i \in 1..Len(ds) : ds[i] \in 48..57
        /\ sig # <<>>
        /\ Len(sig) < Len(I32MaxText) \/ (Len(sig) = Len(I32MaxText) /\ NotAboveI32Max(sig))
PositiveI32Value(t) ==
    DecimalValue(Significant(IF t[1] = 43 THEN Tail(t) ELSE t))
ExpectedPr(s) ==
    IF /\ Len(s) >= Len(RefsPull)
       /\ \A i \in 1..Len(RefsPull) : s[i] = RefsPull[i]
       /\ PositiveI32Text(PrSegment(s))
    THEN Some(PositiveI32Value(PrSegment(s)))
    ELSE None

\* C22: parse_pr_from_github_ref returns Some(n) exactly when the text starts
\* with "refs/pull/" and what lies between that prefix and the next '/' (or
\* the end) is the decimal text of a 32-bit signed integer n > 0; it returns
\* None for every other text: other refs, the empty text, leading
\* whitespace, a missing or incomplete prefix, no digits, other characters,
\* zero, negative numbers and numbers beyond 2147483647.
C22_ParsePr ==
    /\ prNumber.called => prNumber.result = ExpectedPr(githubRef)
    /\ ~prNumber.called => prNumber.result = None
    /\ parse_pr_from_github_ref(RefsPull \o Bytes(<<"1", "2", "3", "/", "m", "e", "r", "g", "e">>))
          = Some(123)
    /\ parse_pr_from_github_ref(RefsPull \o Bytes(<<"4", "2", "/", "h", "e", "a", "d">>))
          = Some(42)
    /\ parse_pr_from_github_ref(RefsPull) = None
    /\ parse_pr_from_github_ref(RefsPull \o Bytes(<<"0", "/", "m", "e", "r", "g", "e">>)) = None
    /\ parse_pr_from_github_ref(RefsPull \o Bytes(<<"-", "1", "/", "m", "e", "r", "g", "e">>)) = None
    /\ parse_pr_from_github_ref(Bytes(<<" ">>) \o RefsPull \o Bytes(<<"1", "2", "3">>)) = None

C22_Witness ==
    /\ prNumber.called
    /\ githubRef = RefsPull \o I32MaxText \o Bytes(<<"/", "m", "e", "r", "g", "e">>)
    /\ prNumber.result = Some(2147483647)

=============================================================================
